---- MODULE Spec2Model ----
(***************************************************************************)
(* A model of the vaulty server (src/source/vault): the four redb tables,  *)
(* the admin WebSocket session, the data-plane handlers, the secret        *)
(* envelope and the access-key attestation.                                *)
(***************************************************************************)
EXTENDS Integers, Sequences, FiniteSets, TLC

VARIABLES
    users,        \* USERS_TABLE:      username -> UserDocument
    vaults,       \* VAULT_TABLE:      vault -> VaultDocument
    access_keys,  \* ACCESS_KEY_TABLE: (vault, access_key) -> AccessKeyDocument
    secrets,      \* SECRETS_TABLE:    (vault, secret_name) -> SecretDocument
    sess,         \* the admin WebSocket sessions (api::Session and its tasks)
    req,          \* the data-plane requests in flight
    host          \* the data directory, the process and its log

vars == <<users, vaults, access_keys, secrets, sess, req, host>>
tables == <<users, vaults, access_keys, secrets>>

(***************************************************************************)
(* Bounds of the model.                                                    *)
(***************************************************************************)
MaxFrames == 2      \* command frames read on one WebSocket connection

Sessions == {"c1"}  \* admin connections open at a time
Requests == {"r1"}  \* data-plane requests in flight at a time

Vaults == {"v1", "v2"}
SecretNames == {"s1", "s2"}
AccessKeyIds == {"k1", "k2"}          \* ids the generator can draw
SecretAccessKeys == {"sakA", "sakB"}  \* plaintext secret-access-keys it can draw
UserNames == {"root", "bob"}
Passwords == {"pw1", "pw2"}

NoRow == [present |-> FALSE]

(***************************************************************************)
(* IP addresses and security groups.                                       *)
(***************************************************************************)
Ip4(a, b, c, d) == [fam |-> 4, oct |-> <<a, b, c, d>>]
Ip6Loopback == [fam |-> 6, oct |-> <<0, 0, 0, 0, 0, 0, 0, 0, 0, 0, 0, 0, 0, 0, 0, 1>>]

\* A network literal as stored: text that parses to an address, or text that does not.
NetLit(ip) == [parses |-> TRUE, ip |-> ip]
BadLit == [parses |-> FALSE]

\* One stored security-group entry (AccessKeySgDocument / UserSgDocument).
Sg(net, prefix) == [network |-> net, prefix |-> prefix]

Pow2(n) == IF n = 0 THEN 1 ELSE IF n = 1 THEN 2 ELSE IF n = 2 THEN 4
           ELSE IF n = 3 THEN 8 ELSE IF n = 4 THEN 16 ELSE IF n = 5 THEN 32
           ELSE IF n = 6 THEN 64 ELSE IF n = 7 THEN 128 ELSE 256

MaxPrefix(ip) == IF ip.fam = 4 THEN 32 ELSE 128

\* The number of the top n bits of an address that fall into its i-th octet.
BitsInOctet(n, i) ==
    LET left == n - 8 * (i - 1)
    IN  IF left <= 0 THEN 0 ELSE IF left >= 8 THEN 8 ELSE left

\* A faulty variant: only the whole octets of the prefix are compared.
NetworkContains_octets(net, prefix, ip) ==
    /\ net.fam = ip.fam
    /\ \A i \in 1..Len(net.oct) :
          BitsInOctet(prefix, i) = 8 => net.oct[i] = ip.oct[i]

\* ipnetwork::IpNetwork::contains: both addresses are masked to the prefix; a
\* network of one family contains no address of the other.
NetworkContains(net, prefix, ip) ==
    /\ net.fam = ip.fam
    /\ \A i \in 1..Len(net.oct) :
          (net.oct[i] \div Pow2(8 - BitsInOctet(prefix, i)))
            = (ip.oct[i] \div Pow2(8 - BitsInOctet(prefix, i)))

\* The loop of access_check and user::login over the stored entries, from entry
\* i on: "match" at the first entry containing the address, "error" at the first
\* entry before it that does not parse or has an invalid prefix, else "nomatch".
RECURSIVE SgScan(_, _, _)
SgScan(sg, i, ip) ==
    IF i > Len(sg) THEN "nomatch"
    ELSE IF ~sg[i].network.parses THEN "error"
    ELSE IF sg[i].prefix > MaxPrefix(sg[i].network.ip) THEN "error"
    ELSE IF (sg[i].prefix % 256) > MaxPrefix(sg[i].network.ip) THEN "error"
    ELSE IF NetworkContains(sg[i].network.ip, sg[i].prefix % 256, ip) THEN "match"
    ELSE SgScan(sg, i + 1, ip)

\* The parsing of the security groups of a request (access_keys::create,
\* user::create_user): an entry without '/' or with a prefix that is no i32 is an
\* error; everything else is stored as it is.
WireSg(net, prefix) == [form |-> "net/prefix", network |-> net, prefix |-> prefix]
WireNoSlash == [form |-> "noslash"]
WireBadPrefix == [form |-> "net/text"]
ParseSg(wire) ==
    IF \E i \in 1..Len(wire) : wire[i].form # "net/prefix"
    THEN [ok |-> FALSE]
    ELSE [ok |-> TRUE,
          sg |-> [i \in 1..Len(wire) |-> Sg(wire[i].network, wire[i].prefix)]]

(***************************************************************************)
(* The secret envelope (secrets.rs).  A byte string is described by what   *)
(* it holds and how long it is: a plaintext is [id, len]; the AES-GCM      *)
(* ciphertext of p is p followed by the 16-byte tag; an RSA block is the   *)
(* PKCS#1 v1.5 encryption of a slice [from, to) of that ciphertext and is  *)
(* as long as the modulus.                                                 *)
(***************************************************************************)
BLOCK_SIZE == 512        \* the block size of rsa_encrypt and rsa_decrypt
RsaModulusLen == 512     \* bytes of the RSA-4096 modulus: one encrypted block
Pkcs1Overhead == 11      \* bytes PKCS#1 v1.5 padding adds to a message
AesTagLen == 16          \* bytes of the AES-GCM authentication tag

Plain(id, len) == [id |-> id, len |-> len]

aes_encrypt(plain) == [aes |-> plain, len |-> plain.len + AesTagLen]

Slice(c1, from, to) == [of |-> c1, from |-> from, to |-> to]

\* RsaPublicKey::encrypt with Pkcs1v15Encrypt: a message longer than the
\* modulus less the padding is refused.
RsaEncryptBlock(slice) ==
    IF (slice.to - slice.from) + Pkcs1Overhead > RsaModulusLen
    THEN [ok |-> FALSE]
    ELSE [ok |-> TRUE, block |-> [rsa |-> slice]]

\* The while loop of rsa_encrypt from offset idx on: one block per full
\* BLOCK_SIZE bytes; it stops when fewer than BLOCK_SIZE bytes are left.
RECURSIVE RsaEncryptLoop(_, _)
RsaEncryptLoop(c1, idx) ==
    IF idx + BLOCK_SIZE <= c1.len
    THEN LET b == RsaEncryptBlock(Slice(c1, idx, idx + BLOCK_SIZE))
             rest == RsaEncryptLoop(c1, idx + BLOCK_SIZE)
         IN  IF ~b.ok \/ ~rest.ok THEN [ok |-> FALSE]
             ELSE [ok |-> TRUE, blocks |-> <<b.block>> \o rest.blocks]
    ELSE [ok |-> TRUE, blocks |-> <<>>]

\* A ciphertext is its RSA blocks plus `tail` stray bytes after them.
rsa_encrypt(c1) ==
    IF c1.len > BLOCK_SIZE
    THEN LET r == RsaEncryptLoop(c1, 0)
         IN  IF r.ok THEN [ok |-> TRUE, blocks |-> r.blocks, tail |-> 0] ELSE r
    ELSE LET b == RsaEncryptBlock(Slice(c1, 0, c1.len))
         IN  IF b.ok THEN [ok |-> TRUE, blocks |-> <<b.block>>, tail |-> 0] ELSE b

encrypt(plain) ==
    IF plain.len = 0 THEN [ok |-> FALSE] ELSE rsa_encrypt(aes_encrypt(plain))

CipherLen(ct) == RsaModulusLen * Len(ct.blocks) + ct.tail

\* rsa_decrypt: the length must be a multiple of BLOCK_SIZE; each block
\* decrypts to the slice it holds; a lone piece shorter than the modulus does
\* not decrypt.
rsa_decrypt(ct) ==
    IF CipherLen(ct) % BLOCK_SIZE > 0 THEN [ok |-> FALSE]
    ELSE IF Len(ct.blocks) = 0 THEN [ok |-> FALSE]
    ELSE [ok |-> TRUE, data |-> [i \in 1..Len(ct.blocks) |-> ct.blocks[i].rsa]]

\* aes_decrypt: the tag verifies exactly when the data is the whole AES-GCM
\* ciphertext of one plaintext, its pieces in order and without gaps.
aes_decrypt(data) ==
    IF /\ Len(data) > 0
       /\ data[1].from = 0
       /\ data[Len(data)].to = data[1].of.len
       /\ \A i \in 1..Len(data) : data[i].of = data[1].of
       /\ \A i \in 1..(Len(data) - 1) : data[i].to = data[i + 1].from
    THEN [ok |-> TRUE, plain |-> data[1].of.aes]
    ELSE [ok |-> FALSE]

decrypt(ct) ==
    IF CipherLen(ct) = 0 THEN [ok |-> FALSE]
    ELSE LET d == rsa_decrypt(ct)
         IN  IF d.ok THEN aes_decrypt(d.data) ELSE [ok |-> FALSE]

\* base64_simd::STANDARD: the text form of a byte string, and back.
Base64Encode(bytes) == [b64 |-> bytes]
Base64Decode(text) ==
    IF "b64" \in DOMAIN text THEN [ok |-> TRUE, bytes |-> text.b64] ELSE [ok |-> FALSE]

(***************************************************************************)
(* Access-key attestation (access_keys.rs) and password hashing (user.rs). *)
(***************************************************************************)
\* A faulty variant: the signature is made over an empty buffer.
sign_secret_empty(secret) == [b64 |-> [der |-> TRUE, over |-> ""]]

\* sign_secret: the base64 text of the DER signature over the plaintext.
sign_secret(secret) == Base64Encode([der |-> TRUE, over |-> secret])

\* verify_access_key: the signature must parse as DER ("error" otherwise) and
\* must be one made over the key presented.
verify_access_key(key, signature) ==
    IF "der" \notin DOMAIN signature THEN "error"
    ELSE IF signature.over = key THEN "true" ELSE "false"

hash_password(password) == [phc |-> "argon2id", of |-> password]

verify_password(password, verifying_password) ==
    IF "phc" \notin DOMAIN verifying_password THEN "error"
    ELSE IF verifying_password.of = password THEN "Authorized" ELSE "Unathorized"

(***************************************************************************)
(* The documents of the four tables.  Timestamps of creation are left out: *)
(* no decision of the program reads them.                                  *)
(***************************************************************************)
UserDocument(password, role, sg) ==
    [present |-> TRUE, password |-> password, role |-> role,
     last_login |-> "None", sg |-> sg]

VaultDocument(secrets_count, access_keys_count) ==
    [present |-> TRUE, secrets_count |-> secrets_count,
     access_keys_count |-> access_keys_count]

AccessKeyDocument(signature, permission, sg) ==
    [present |-> TRUE, secret_access_key |-> signature, permission |-> permission,
     sg |-> sg, last_used |-> "None"]

SecretDocument(secret) == [present |-> TRUE, secret |-> secret]

VaultPermissions == {"ListSecrets", "DeleteSecrets", "CreateSecrets", "DecryptSecrets"}

\* The rows of a child table (access_keys or secrets) keyed (vault, *).
RowsOf(table, vault) == {k \in DOMAIN table : k[1] = vault /\ table[k].present}

(***************************************************************************)
(* db::vault::update: the counter update made inside the write transaction *)
(* of a child insert or delete.  An absent vault row is created.           *)
(***************************************************************************)
\* A faulty variant: the row of a vault that was absent starts with both
\* counters at zero, the child that brought it about not counted.
vault_update_zero(vt, vault, update) ==
    IF vt[vault].present
    THEN [vt EXCEPT ![vault] =
            CASE update = "IncreaseSecrets" ->
                     [@ EXCEPT !.secrets_count = @ + 1]
              [] update = "IncreaseAccessKey" ->
                     [@ EXCEPT !.access_keys_count = @ + 1]
              [] update = "DecreaseSecrets" ->
                     [@ EXCEPT !.secrets_count = @ - 1]
              [] update = "DecreaseAccessKey" ->
                     [@ EXCEPT !.access_keys_count = @ - 1]]
    ELSE [vt EXCEPT ![vault] = VaultDocument(0, 0)]

\* A faulty variant: no row is made for a vault that was absent.
vault_update_nocreate(vt, vault, update) ==
    IF vt[vault].present
    THEN [vt EXCEPT ![vault] =
            CASE update = "IncreaseSecrets" ->
                     [@ EXCEPT !.secrets_count = @ + 1]
              [] update = "IncreaseAccessKey" ->
                     [@ EXCEPT !.access_keys_count = @ + 1]
              [] update = "DecreaseSecrets" ->
                     [@ EXCEPT !.secrets_count = @ - 1]
              [] update = "DecreaseAccessKey" ->
                     [@ EXCEPT !.access_keys_count = @ - 1]]
    ELSE vt

\* A faulty variant: the row of a vault that was absent starts with both
\* counters at one.
vault_update_both(vt, vault, update) ==
    IF vt[vault].present
    THEN [vt EXCEPT ![vault] =
            CASE update = "IncreaseSecrets" ->
                     [@ EXCEPT !.secrets_count = @ + 1]
              [] update = "IncreaseAccessKey" ->
                     [@ EXCEPT !.access_keys_count = @ + 1]
              [] update = "DecreaseSecrets" ->
                     [@ EXCEPT !.secrets_count = @ - 1]
              [] update = "DecreaseAccessKey" ->
                     [@ EXCEPT !.access_keys_count = @ - 1]]
    ELSE [vt EXCEPT ![vault] = VaultDocument(1, 1)]

vault_update(vt, vault, update) ==
    IF vt[vault].present
    THEN [vt EXCEPT ![vault] =
            CASE update = "IncreaseSecrets" ->
                     [@ EXCEPT !.secrets_count = @ + 1]
              [] update = "IncreaseAccessKey" ->
                     [@ EXCEPT !.access_keys_count = @ + 1]
              [] update = "DecreaseSecrets" ->
                     [@ EXCEPT !.secrets_count = @ - 1]
              [] update = "DecreaseAccessKey" ->
                     [@ EXCEPT !.access_keys_count = @ - 1]]
    ELSE [vt EXCEPT ![vault] =
            VaultDocument(IF update = "IncreaseSecrets" THEN 1 ELSE 0,
                          IF update = "IncreaseAccessKey" THEN 1 ELSE 0)]

(***************************************************************************)
(* The write transactions.  Each begins a redb write transaction, makes its *)
(* writes to the tables opened under it, and commits.  `io` says where the  *)
(* storage fails, if it does: "ok" nowhere; "begin" before the first write; *)
(* "w1", "w2", "w3" in the first, second, third write of the transaction (a *)
(* write it does not get to cannot fail); "commit" in the commit; "fail"    *)
(* somewhere, taken at the commit.  A failure returns through `?` with      *)
(* the transaction dropped: the result is "Err".                            *)
(***************************************************************************)
FailPoints == {"begin", "w1", "w2", "w3", "commit"}

Aborted == [result |-> "Err", users |-> users, vaults |-> vaults,
            access_keys |-> access_keys, secrets |-> secrets]

Committed(result, us, vt, ak, sc) ==
    [result |-> result, users |-> us, vaults |-> vt, access_keys |-> ak, secrets |-> sc]

\* The tables as an open transaction has written them so far.
Written(us, vt, ak, sc) ==
    [users |-> us, vaults |-> vt, access_keys |-> ak, secrets |-> sc]

\* A faulty variant: what the transaction wrote before the failure stays.
Rollback_keep(written) ==
    [result |-> "Err", users |-> written.users, vaults |-> written.vaults,
     access_keys |-> written.access_keys, secrets |-> written.secrets]

\* A redb::WriteTransaction dropped without commit: nothing it wrote stays.
Rollback(written) == Aborted

\* Whether a transaction of n writes fails with the storage failing at io.
Fails(io, n) ==
    \/ io \in {"begin", "commit", "fail"}
    \/ io = "w1" /\ n >= 1
    \/ io = "w2" /\ n >= 2
    \/ io = "w3" /\ n >= 3

\* The number of writes a transaction of n writes has made when it fails at io.
WritesBefore(io, n) ==
    CASE io = "begin" -> 0
      [] io = "w1" -> 0
      [] io = "w2" -> 1
      [] io = "w3" -> 2
      [] OTHER -> n

\* A write transaction: stages[1] is the tables it began on and stages[i + 1]
\* the tables after its i-th write; the last stage is what a commit installs.
WriteTxn(result, stages, io) ==
    LET n == Len(stages) - 1
    IN  IF Fails(io, n)
        THEN Rollback(stages[WritesBefore(io, n) + 1])
        ELSE Committed(result, stages[n + 1].users, stages[n + 1].vaults,
                       stages[n + 1].access_keys, stages[n + 1].secrets)

\* The tables as they stand when a transaction begins.
Begun == Written(users, vaults, access_keys, secrets)

\* db::secret::insert: the row is written, then the counter for a new row.
secret_insert(vault, secret_name, document, io) ==
    LET child == [secrets EXCEPT ![<<vault, secret_name>>] = document]
    IN  IF secrets[<<vault, secret_name>>].present
        THEN WriteTxn("Updated",
                      <<Begun, Written(users, vaults, access_keys, child)>>, io)
        ELSE WriteTxn("Inserted",
                      <<Begun, Written(users, vaults, access_keys, child),
                        Written(users, vault_update(vaults, vault, "IncreaseSecrets"),
                                access_keys, child)>>, io)

\* db::secret::delete: the row is removed, then the counter lowered.
secret_delete(vault, secret_name, io) ==
    LET child == [secrets EXCEPT ![<<vault, secret_name>>] = NoRow]
    IN  IF secrets[<<vault, secret_name>>].present
        THEN WriteTxn("Deleted",
                      <<Begun, Written(users, vaults, access_keys, child),
                        Written(users, vault_update(vaults, vault, "DecreaseSecrets"),
                                access_keys, child)>>, io)
        ELSE WriteTxn("NotFound", <<Begun>>, io)

\* A faulty variant: the row is written whether the id is there or not.
access_insert_overwrite(vault, access_key, document, io) ==
    LET child == [access_keys EXCEPT ![<<vault, access_key>>] = document]
    IN  WriteTxn("Ok",
                 <<Begun, Written(users, vaults, child, secrets),
                   Written(users, vault_update(vaults, vault, "IncreaseAccessKey"),
                           child, secrets)>>, io)

\* db::access::insert: an id that is already there is an error; else the row
\* is written, then the counter raised.
access_insert(vault, access_key, document, io) ==
    LET child == [access_keys EXCEPT ![<<vault, access_key>>] = document]
    IN  IF access_keys[<<vault, access_key>>].present THEN Rollback(Begun)
        ELSE WriteTxn("Ok",
                      <<Begun, Written(users, vaults, child, secrets),
                        Written(users, vault_update(vaults, vault, "IncreaseAccessKey"),
                                child, secrets)>>, io)

\* A faulty variant: the vault row goes with the last child of the vault.
access_delete_reap(vault, access_key, io) ==
    LET child == [access_keys EXCEPT ![<<vault, access_key>>] = NoRow]
        counted == vault_update(vaults, vault, "DecreaseAccessKey")
        reaped == IF RowsOf(child, vault) = {} /\ RowsOf(secrets, vault) = {}
                  THEN [vaults EXCEPT ![vault] = NoRow]
                  ELSE counted
    IN  IF access_keys[<<vault, access_key>>].present
        THEN WriteTxn("Deleted",
                      <<Begun, Written(users, vaults, child, secrets),
                        Written(users, reaped, child, secrets)>>, io)
        ELSE WriteTxn("NotFound", <<Begun>>, io)

\* db::access::delete: the row is removed, then the counter lowered.
access_delete(vault, access_key, io) ==
    LET child == [access_keys EXCEPT ![<<vault, access_key>>] = NoRow]
    IN  IF access_keys[<<vault, access_key>>].present
        THEN WriteTxn("Deleted",
                      <<Begun, Written(users, vaults, child, secrets),
                        Written(users, vault_update(vaults, vault, "DecreaseAccessKey"),
                                child, secrets)>>, io)
        ELSE WriteTxn("NotFound", <<Begun>>, io)

\* A faulty variant: the test on the vault of a row is inverted.
purge_others(table, vault) ==
    [k \in DOMAIN table |-> IF k[1] # vault THEN NoRow ELSE table[k]]

\* db::access::purge and db::secret::purge: every row keyed (vault, *) goes.
purge(table, vault) ==
    [k \in DOMAIN table |-> IF k[1] = vault THEN NoRow ELSE table[k]]

\* A faulty variant: the access keys of the vault are left in their table.
vault_delete_keepkeys(vault, io) ==
    LET gone == [vaults EXCEPT ![vault] = NoRow]
    IN  IF vaults[vault].present
        THEN WriteTxn("Deleted",
                      <<Begun, Written(users, gone, access_keys, secrets),
                        Written(users, gone, access_keys, purge(secrets, vault))>>, io)
        ELSE WriteTxn("NotFound", <<Begun>>, io)

\* db::vault::delete: the vault row is removed, then the access keys of the
\* vault are purged, then its secrets.
vault_delete(vault, io) ==
    LET gone == [vaults EXCEPT ![vault] = NoRow]
    IN  IF vaults[vault].present
        THEN WriteTxn("Deleted",
                      <<Begun, Written(users, gone, access_keys, secrets),
                        Written(users, gone, purge(access_keys, vault), secrets),
                        Written(users, gone, purge(access_keys, vault),
                                purge(secrets, vault))>>, io)
        ELSE WriteTxn("NotFound", <<Begun>>, io)

\* db::access::change_permission: the permission list of the row is replaced
\* inside one write transaction that reads the row first.
access_change_permission(vault, access_key, permission, io) ==
    IF access_keys[<<vault, access_key>>].present
    THEN WriteTxn("Updated",
                  <<Begun,
                    Written(users, vaults,
                            [access_keys EXCEPT ![<<vault, access_key>>].permission = permission],
                            secrets)>>, io)
    ELSE WriteTxn("NotFound", <<Begun>>, io)

\* db::access::change_sg: the same for the security groups of the row.
access_change_sg(vault, access_key, sg, io) ==
    IF access_keys[<<vault, access_key>>].present
    THEN WriteTxn("Updated",
                  <<Begun,
                    Written(users, vaults,
                            [access_keys EXCEPT ![<<vault, access_key>>].sg = sg],
                            secrets)>>, io)
    ELSE WriteTxn("NotFound", <<Begun>>, io)

\* A faulty variant: the document that access_check read is stamped and
\* written back, not the one the write transaction finds.
refresh_access_time_stale(vault, access_key, io) ==
    LET read == req[CHOOSE r \in Requests : req[r].pc = "refresh"].doc
    IN  IF access_keys[<<vault, access_key>>].present
        THEN WriteTxn("Ok",
                      <<Begun,
                        Written(users, vaults,
                                [access_keys EXCEPT ![<<vault, access_key>>] =
                                    [read EXCEPT !.last_used = "Some"]],
                                secrets)>>, io)
        ELSE WriteTxn("Ok", <<Begun>>, io)

\* db::access::refresh_access_time: stamps the row if it is (still) there.
refresh_access_time(vault, access_key, io) ==
    IF access_keys[<<vault, access_key>>].present
    THEN WriteTxn("Ok",
                  <<Begun,
                    Written(users, vaults,
                            [access_keys EXCEPT ![<<vault, access_key>>].last_used = "Some"],
                            secrets)>>, io)
    ELSE WriteTxn("Ok", <<Begun>>, io)

\* db::user::insert
user_insert(username, document, io) ==
    IF users[username].present
    THEN WriteTxn("Exists", <<Begun>>, io)
    ELSE WriteTxn("Created",
                  <<Begun, Written([users EXCEPT ![username] = document],
                                   vaults, access_keys, secrets)>>, io)

\* db::user::delete
user_delete(username, io) ==
    IF users[username].present
    THEN WriteTxn("Deleted",
                  <<Begun, Written([users EXCEPT ![username] = NoRow],
                                   vaults, access_keys, secrets)>>, io)
    ELSE WriteTxn("NotFound", <<Begun>>, io)

\* db::user::change_role
change_role(username, role, io) ==
    IF users[username].present
    THEN WriteTxn(IF users[username].role = role THEN "NoChange"
                  ELSE IF role = "Admin" THEN "Promoted" ELSE "Demoted",
                  <<Begun, Written([users EXCEPT ![username].role = role],
                                   vaults, access_keys, secrets)>>, io)
    ELSE WriteTxn("NotFound", <<Begun>>, io)

\* A faulty variant: a user that has no row gets one with the stamp.
refresh_last_active_upsert(username, io) ==
    WriteTxn("Ok",
             <<Begun,
               Written([users EXCEPT ![username] =
                           IF @.present THEN [@ EXCEPT !.last_login = "Some"]
                           ELSE [UserDocument(hash_password(""), "User", <<>>)
                                    EXCEPT !.last_login = "Some"]],
                       vaults, access_keys, secrets)>>, io)

\* db::user::refresh_last_active
refresh_last_active(username, io) ==
    IF users[username].present
    THEN WriteTxn("Ok",
                  <<Begun, Written([users EXCEPT ![username].last_login = "Some"],
                                   vaults, access_keys, secrets)>>, io)
    ELSE WriteTxn("Ok", <<Begun>>, io)

\* The commit of a transaction's tables.
Commit(txn) ==
    /\ users' = txn.users
    /\ vaults' = txn.vaults
    /\ access_keys' = txn.access_keys
    /\ secrets' = txn.secrets

(***************************************************************************)
(* Reads (each its own read transaction).                                  *)
(***************************************************************************)
Find(table, key) == IF key \in DOMAIN table THEN table[key] ELSE NoRow

(***************************************************************************)
(* user::login: the user is looked up, the address is checked against the  *)
(* user's security groups, then the password is verified.                  *)
(***************************************************************************)
\* A faulty variant: the result of verify_password is not looked at.
login_anypassword(requester_ip, username, password) ==
    LET user == Find(users, username)
    IN  IF ~user.present THEN "Failed"
        ELSE LET scan == SgScan(user.sg, 1, requester_ip)
             IN  IF scan = "error" THEN "Err"
                 ELSE IF scan = "nomatch" THEN "Failed"
                 ELSE "Successful"

login(requester_ip, username, password) ==
    LET user == Find(users, username)
    IN  IF ~user.present THEN "Failed"
        ELSE LET scan == SgScan(user.sg, 1, requester_ip)
             IN  IF scan = "error" THEN "Err"
                 ELSE IF scan = "nomatch" THEN "Failed"
                 ELSE LET v == verify_password(password, user.password)
                      IN  IF v = "error" THEN "Err"
                          ELSE IF v = "Authorized" THEN "Successful"
                          ELSE "Failed"

(***************************************************************************)
(* vault::access_check: the decision of the data plane on one request.     *)
(***************************************************************************)
\* A faulty variant: the permission list of the key is not consulted.
access_check_noperm(requester_ip, access_key, secret_access_key, permission, vault) ==
    LET ac_document == Find(access_keys, <<vault, access_key>>)
    IN  IF ~ac_document.present THEN "Unauthorized"
        ELSE LET scan == SgScan(ac_document.sg, 1, requester_ip)
             IN  IF scan = "error" THEN "Err"
                 ELSE IF scan = "nomatch" THEN "Unauthorized"
                 ELSE LET sig == Base64Decode(ac_document.secret_access_key)
                      IN  IF ~sig.ok THEN "Err"
                          ELSE LET v == verify_access_key(secret_access_key, sig.bytes)
                               IN  IF v = "error" THEN "Err"
                                   ELSE IF v = "false" THEN "Unauthorized"
                                   ELSE "Authorized"

\* A faulty variant: the key is looked up by its id alone, under any vault.
access_check_anyvault(requester_ip, access_key, secret_access_key, permission, vault) ==
    LET held == {v \in Vaults : Find(access_keys, <<v, access_key>>).present}
        ac_document == IF held = {} THEN NoRow
                       ELSE access_keys[<<CHOOSE v \in held : TRUE, access_key>>]
    IN  IF ~ac_document.present THEN "Unauthorized"
        ELSE LET scan == SgScan(ac_document.sg, 1, requester_ip)
             IN  IF scan = "error" THEN "Err"
                 ELSE IF scan = "nomatch" THEN "Unauthorized"
                 ELSE LET sig == Base64Decode(ac_document.secret_access_key)
                      IN  IF ~sig.ok THEN "Err"
                          ELSE LET v == verify_access_key(secret_access_key, sig.bytes)
                               IN  IF v = "error" THEN "Err"
                                   ELSE IF v = "false" THEN "Unauthorized"
                                   ELSE IF permission \in ac_document.permission
                                   THEN "Authorized"
                                   ELSE "Unauthorized"

access_check(requester_ip, access_key, secret_access_key, permission, vault) ==
    LET ac_document == Find(access_keys, <<vault, access_key>>)
    IN  IF ~ac_document.present THEN "Unauthorized"
        ELSE LET scan == SgScan(ac_document.sg, 1, requester_ip)
             IN  IF scan = "error" THEN "Err"
                 ELSE IF scan = "nomatch" THEN "Unauthorized"
                 ELSE LET sig == Base64Decode(ac_document.secret_access_key)
                      IN  IF ~sig.ok THEN "Err"
                          ELSE LET v == verify_access_key(secret_access_key, sig.bytes)
                               IN  IF v = "error" THEN "Err"
                                   ELSE IF v = "false" THEN "Unauthorized"
                                   ELSE IF permission \in ac_document.permission
                                   THEN "Authorized"
                                   ELSE "Unauthorized"

(***************************************************************************)
(* The admin session (api.rs).                                             *)
(*   pc     where the connection's task stands                             *)
(*   state  SessionState                                                   *)
(*   sink   "open" while ws_session is Some, "taken" once close() took it  *)
(*   peer   whether the peer is still connected (a send succeeds iff so)   *)
(*   nIn    text frames read in Command state                              *)
(*   out    what the session did towards the peer, in order                *)
(*   resp   the response computed by the last command handler              *)
(*   eof    the peer closed the connection in order: the stream has ended   *)
(*   lock   who holds the Arc<Mutex<Session>>: "free", "ping" or "recv"     *)
(*   ping   where the ping task stands                                      *)
(*   closing  the flag stream_closing                                       *)
(*   writing  the operations that are writing to the sink now               *)
(***************************************************************************)
NoSession ==
    [pc |-> "none", state |-> "Login", username |-> "", ip |-> Ip4(0, 0, 0, 0),
     sink |-> "open", peer |-> FALSE, nIn |-> 0, out |-> <<>>,
     resp |-> [cmd |-> "none"],
     eof |-> FALSE, lock |-> "free", ping |-> "none", closing |-> FALSE,
     writing |-> {}]

\* Session::new
NewSession(ip) == [NoSession EXCEPT !.pc = "login", !.ip = ip, !.peer = TRUE]

Ended(s) == sess[s].pc \in {"none", "closed", "ended", "panicked"}

\* A connection is accepted (web_socket up to the spawn of its task).
Connect(s, ip) ==
    /\ Ended(s)
    /\ sess' = [sess EXCEPT ![s] = NewSession(ip)]
    /\ UNCHANGED <<tables, req, host>>

\* The peer goes away; what it sent before can still be read.
PeerDisconnect(s) ==
    /\ ~Ended(s)
    /\ sess[s].peer
    /\ sess' = [sess EXCEPT ![s].peer = FALSE]
    /\ UNCHANGED <<tables, req, host>>

\* A faulty variant: a failed login goes to the Denied frame at once,
\* without the delay.
AfterLoginResult_nodelay(result) ==
    CASE result = "Failed" -> "loginDenied"
      [] result = "Err" -> "closing"

\* Where login_handle goes with a login that was not successful: into
\* user::delay() when it failed, out with the error otherwise.
AfterLoginResult(result) ==
    CASE result = "Failed" -> "loginFailed"
      [] result = "Err" -> "closing"

\* The first message is a text frame holding a login request: login_handle
\* up to the delay or the Granted frame.  `io` is the storage under
\* user::login, `stamp` the storage under its refresh of last_login, whose
\* failure is only logged.  resp keeps the attempt and the user row it read.
LoginFrame(s, username, password, io, stamp) ==
    /\ sess[s].pc = "login"
    /\ LET r == IF io = "fail" THEN "Err" ELSE login(sess[s].ip, username, password)
           txn == IF r = "Successful" THEN refresh_last_active(username, stamp)
                  ELSE Aborted
           attempt == [cmd |-> "Login", username |-> username, password |-> password,
                       user |-> Find(users, username), fault |-> (io = "fail"),
                       result |-> r]
       IN  /\ Commit(txn)
           /\ sess' = [sess EXCEPT ![s] =
                 IF r = "Successful"
                 THEN IF sess[s].peer
                      THEN [@ EXCEPT !.out = Append(@, [e |-> "Granted"]),
                                     !.username = username,
                                     !.state = "Command",
                                     !.resp = attempt,
                                     !.ping = "sleep",
                                     !.pc = "command"]
                      ELSE [@ EXCEPT !.resp = attempt, !.pc = "closing"]
                 ELSE [@ EXCEPT !.resp = attempt, !.pc = AfterLoginResult(r)]]
    /\ UNCHANGED <<req, host>>

\* login_handle in two steps, for logins that run next to the commands of
\* another session.  First user::login up to verify_password: the user row is
\* read in a read transaction.
LoginVerify(s, username, password) ==
    /\ sess[s].pc = "login"
    /\ LET r == login(sess[s].ip, username, password)
           attempt == [cmd |-> "Login", username |-> username, password |-> password,
                       user |-> Find(users, username), fault |-> FALSE, result |-> r]
       IN  sess' = [sess EXCEPT ![s] =
                      IF r = "Successful"
                      THEN [@ EXCEPT !.resp = attempt, !.pc = "stamping"]
                      ELSE [@ EXCEPT !.resp = attempt, !.pc = AfterLoginResult(r)]]
    /\ UNCHANGED <<tables, req, host>>

\* Then db::user::refresh_last_active in its own write transaction, whose
\* failure is only logged, and the Granted frame.  resp keeps whether the
\* refresh found the row.
LoginStamp(s, stamp) ==
    /\ sess[s].pc = "stamping"
    /\ Commit(refresh_last_active(sess[s].resp.username, stamp))
    /\ LET attempt == [cmd |-> "Login", username |-> sess[s].resp.username,
                       password |-> sess[s].resp.password, user |-> sess[s].resp.user,
                       fault |-> FALSE, result |-> "Successful",
                       found |-> users[sess[s].resp.username].present]
       IN  sess' = [sess EXCEPT ![s] =
                      IF sess[s].peer
                      THEN [@ EXCEPT !.out = Append(@, [e |-> "Granted"]),
                                     !.username = sess[s].resp.username,
                                     !.state = "Command",
                                     !.resp = attempt,
                                     !.ping = "sleep",
                                     !.pc = "command"]
                      ELSE [@ EXCEPT !.resp = attempt, !.pc = "closing"]]
    /\ UNCHANGED <<req, host>>

\* The first message is no login request: a text frame that does not parse, a
\* message that is no text frame, or the end of the stream.
LoginNoRequest(s) ==
    /\ sess[s].pc = "login"
    /\ sess' = [sess EXCEPT ![s].pc = "closing"]
    /\ UNCHANGED <<tables, req, host>>

\* user::delay() in login_handle has elapsed.
LoginDelay(s) ==
    /\ sess[s].pc = "loginFailed"
    /\ sess' = [sess EXCEPT ![s].out = Append(@, [e |-> "delay"]),
                            ![s].pc = "loginDenied"]
    /\ UNCHANGED <<tables, req, host>>

\* The Denied frame of login_handle is sent (or the send fails).
LoginDenied(s) ==
    /\ sess[s].pc = "loginDenied"
    /\ sess' = [sess EXCEPT ![s].out = IF sess[s].peer
                                         THEN Append(@, [e |-> "Denied", node_name |-> "null"])
                                         ELSE @,
                            ![s].pc = "closing"]
    /\ UNCHANGED <<tables, req, host>>

\* The else branch of `if user_authorized`: Session::close.
LoginClose(s) ==
    /\ sess[s].pc = "closing"
    /\ sess' = [sess EXCEPT ![s].out = Append(@, [e |-> "close"]),
                            ![s].sink = "taken",
                            ![s].pc = "closed"]
    /\ UNCHANGED <<tables, req, host>>

(***************************************************************************)
(* Command state: the receive loop of web_socket reads one text frame,     *)
(* Session::step runs the command handler, and the handler's last act is   *)
(* send_response.  A handler that returns an error leaves the error frame  *)
(* to the loop (pc = "errframe").                                          *)
(***************************************************************************)
InCommand(s) ==
    /\ sess[s].pc = "command"
    /\ sess[s].nIn < MaxFrames

\* The frame that answers frame n with the response resp of its handler; of
\* its content the frame keeps the secret_access_key field, "" when the
\* response has none.
ResponseFrame(n, resp) ==
    [e |-> "response", n |-> n,
     secret_access_key |-> IF "secret_access_key" \in DOMAIN resp
                           THEN resp.secret_access_key ELSE ""]

\* A faulty variant: a handler whose result is NotFound returns without
\* sending its response.
AfterSend_silent(se, resp) ==
    LET n == se.nIn + 1
    IN  IF resp.result = "NotFound"
        THEN [se EXCEPT !.nIn = n, !.resp = resp]
        ELSE IF se.sink = "taken"
        THEN [se EXCEPT !.nIn = n, !.resp = resp, !.pc = "panicked"]
        ELSE IF se.peer
        THEN [se EXCEPT !.nIn = n, !.resp = resp,
                        !.out = Append(@, ResponseFrame(n, resp))]
        ELSE [se EXCEPT !.nIn = n, !.resp = resp, !.pc = "errframe"]

\* send_response at the end of a handler, for frame n: the frame goes out; or
\* the send fails and the handler returns the error; or the sink was taken by
\* an earlier close() and the expect() on it panics.
AfterSend(se, resp) ==
    LET n == se.nIn + 1
    IN  IF se.sink = "taken"
        THEN [se EXCEPT !.nIn = n, !.resp = resp, !.pc = "panicked"]
        ELSE IF se.peer
        THEN [se EXCEPT !.nIn = n, !.resp = resp,
                        !.out = Append(@, ResponseFrame(n, resp))]
        ELSE [se EXCEPT !.nIn = n, !.resp = resp, !.pc = "errframe"]

\* The handler returned an error before it sent anything.
AfterErr(se, resp) ==
    [se EXCEPT !.nIn = se.nIn + 1, !.resp = resp, !.pc = "errframe"]

\* One run of Session::step on a frame whose handler ran the transaction txn.
Step(s, txn, resp) ==
    /\ Commit(txn)
    /\ sess' = [sess EXCEPT ![s] = IF txn.result = "Err"
                                    THEN AfterErr(@, resp)
                                    ELSE AfterSend(@, resp)]
    /\ UNCHANGED <<req, host>>

\* A faulty variant: the connection is closed once the error frame is sent.
ErrorFrame_fatal(s) ==
    /\ sess[s].pc = "errframe"
    /\ sess' = [sess EXCEPT ![s] =
          IF sess[s].sink = "taken"
          THEN [@ EXCEPT !.pc = "panicked"]
          ELSE IF sess[s].peer
          THEN [@ EXCEPT !.out = Append(Append(@, [e |-> "error", n |-> sess[s].nIn]),
                                        [e |-> "close"]),
                         !.sink = "taken",
                         !.pc = "closed"]
          ELSE [@ EXCEPT !.out = Append(@, [e |-> "close"]),
                         !.sink = "taken",
                         !.pc = "command"]]
    /\ UNCHANGED <<tables, req, host>>

\* The error frame of the receive loop; when its send fails, close().
ErrorFrame(s) ==
    /\ sess[s].pc = "errframe"
    /\ sess' = [sess EXCEPT ![s] =
          IF sess[s].sink = "taken"
          THEN [@ EXCEPT !.pc = "panicked"]
          ELSE IF sess[s].peer
          THEN [@ EXCEPT !.out = Append(@, [e |-> "error", n |-> sess[s].nIn]),
                         !.pc = "command"]
          ELSE [@ EXCEPT !.out = Append(@, [e |-> "close"]),
                         !.sink = "taken",
                         !.pc = "command"]]
    /\ UNCHANGED <<tables, req, host>>

\* stream.next() yields an error once the peer is gone: the task returns.
StreamError(s) ==
    /\ sess[s].pc = "command"
    /\ ~sess[s].peer
    /\ ~sess[s].eof
    /\ sess' = [sess EXCEPT ![s].pc = "ended"]
    /\ UNCHANGED <<tables, req, host>>

(***************************************************************************)
(* The two tasks of a session in Command state, step by step.  The ping    *)
(* task sleeps a second, locks the Arc<Mutex<Session>> and pings; the      *)
(* receive loop locks it around Session::step and around the error frame.  *)
(* The lock inside Session (`let _ = self.lock.lock().await`) is released  *)
(* in the statement that takes it and holds nothing.  Of a command only    *)
(* whether its handler fails before it sends is kept here.                 *)
(***************************************************************************)
\* A faulty variant: the Session is not behind the outer mutex, only the lock
\* inside it is taken.
MutexFree_inner(se) == TRUE

\* user_session.lock().await returns: nobody holds the mutex.
MutexFree(se) == se.lock = "free"

\* The peer closes the connection in order: the stream ends (stream.next()
\* yields None from then on) instead of failing.
PeerClose(s) ==
    /\ ~Ended(s)
    /\ sess[s].peer
    /\ sess' = [sess EXCEPT ![s].peer = FALSE, ![s].eof = TRUE]
    /\ UNCHANGED <<tables, req, host>>

\* The sleep of the ping task is over: it asks for the mutex.
PingWake(s) ==
    /\ sess[s].ping = "sleep"
    /\ sess' = [sess EXCEPT ![s].ping = "wait"]
    /\ UNCHANGED <<tables, req, host>>

\* The ping task has the mutex and enters Session::ping: the expect() on a
\* sink that close() took panics (the guard is dropped), else stream.ping
\* starts to write.
PingBegin(s) ==
    /\ sess[s].ping = "wait"
    /\ MutexFree(sess[s])
    /\ sess' = [sess EXCEPT ![s] =
          IF sess[s].sink = "taken"
          THEN [@ EXCEPT !.ping = "panicked"]
          ELSE [@ EXCEPT !.lock = "ping", !.writing = @ \cup {"ping"},
                         !.ping = "write"]]
    /\ UNCHANGED <<tables, req, host>>

\* stream.ping returns: the task sleeps again, or the ping failed and the
\* task sets stream_closing and ends.
PingEnd(s) ==
    /\ sess[s].ping = "write"
    /\ sess' = [sess EXCEPT ![s] =
          IF sess[s].peer
          THEN [@ EXCEPT !.lock = "free", !.writing = @ \ {"ping"}, !.ping = "sleep"]
          ELSE [@ EXCEPT !.lock = "free", !.writing = @ \ {"ping"}, !.closing = TRUE,
                         !.ping = "ended"]]
    /\ UNCHANGED <<tables, req, host>>

\* The receive loop finds stream_closing set: it logs under the mutex and
\* returns.
RecvClosing(s) ==
    /\ sess[s].pc = "command"
    /\ sess[s].closing
    /\ MutexFree(sess[s])
    /\ sess' = [sess EXCEPT ![s].pc = "ended"]
    /\ UNCHANGED <<tables, req, host>>

\* A text frame is read and Session::step runs under the mutex: the handler
\* fails before it sends (result "Err"), or its send_response panics on a
\* sink that was taken, or starts to write.
RecvBegin(s, result) ==
    /\ InCommand(s)
    /\ MutexFree(sess[s])
    /\ sess' = [sess EXCEPT ![s] =
          IF result = "Err"
          THEN [@ EXCEPT !.nIn = @ + 1, !.pc = "errframe"]
          ELSE IF sess[s].sink = "taken"
          THEN [@ EXCEPT !.nIn = @ + 1, !.pc = "panicked"]
          ELSE [@ EXCEPT !.nIn = @ + 1, !.lock = "recv",
                         !.writing = @ \cup {"send_response"}, !.pc = "sending"]]
    /\ UNCHANGED <<tables, req, host>>

\* stream.text of the handler's send_response returns; a failure is the
\* error of step.
SendEnd(s) ==
    /\ sess[s].pc = "sending"
    /\ sess' = [sess EXCEPT ![s] =
          IF sess[s].peer
          THEN [@ EXCEPT !.lock = "free", !.writing = @ \ {"send_response"},
                         !.out = Append(@, [e |-> "response", n |-> sess[s].nIn]),
                         !.pc = "command"]
          ELSE [@ EXCEPT !.lock = "free", !.writing = @ \ {"send_response"},
                         !.pc = "errframe"]]
    /\ UNCHANGED <<tables, req, host>>

\* The loop takes the mutex for the error frame and send_response starts to
\* write it (or panics on a sink that was taken).
ErrBegin(s) ==
    /\ sess[s].pc = "errframe"
    /\ MutexFree(sess[s])
    /\ sess' = [sess EXCEPT ![s] =
          IF sess[s].sink = "taken"
          THEN [@ EXCEPT !.pc = "panicked"]
          ELSE [@ EXCEPT !.lock = "recv", !.writing = @ \cup {"send_response"},
                         !.pc = "errsending"]]
    /\ UNCHANGED <<tables, req, host>>

\* The send of the error frame returns; when it failed, close() takes the
\* sink and starts to write the close frame, still under the mutex.
ErrEnd(s) ==
    /\ sess[s].pc = "errsending"
    /\ sess' = [sess EXCEPT ![s] =
          IF sess[s].peer
          THEN [@ EXCEPT !.lock = "free", !.writing = @ \ {"send_response"},
                         !.out = Append(@, [e |-> "error", n |-> sess[s].nIn]),
                         !.pc = "command"]
          ELSE [@ EXCEPT !.writing = (@ \ {"send_response"}) \cup {"close"},
                         !.sink = "taken",
                         !.pc = "closewrite"]]
    /\ UNCHANGED <<tables, req, host>>

\* stream.close returns (its result is dropped) and the loop goes on.
CloseEnd(s) ==
    /\ sess[s].pc = "closewrite"
    /\ sess' = [sess EXCEPT ![s].lock = "free", ![s].writing = @ \ {"close"},
                            ![s].out = Append(@, [e |-> "close"]),
                            ![s].pc = "command"]
    /\ UNCHANGED <<tables, req, host>>

\* A text frame that is no command: step fails at the parse.
CmdUnparsable(s) ==
    /\ InCommand(s)
    /\ Step(s, Aborted, [cmd |-> "unparsable", result |-> "Err"])

\* cmd::vault::delete
CmdDeleteVault(s, vault, io) ==
    /\ InCommand(s)
    /\ LET txn == vault_delete(vault, io)
       IN  Step(s, txn, [cmd |-> "DeleteVault", vault |-> vault, at |-> io,
                         result |-> txn.result])

\* cmd::vault::find
CmdFindVault(s, vault, io) ==
    /\ InCommand(s)
    /\ LET doc == Find(vaults, vault)
       IN  IF io = "fail"
           THEN Step(s, Aborted, [cmd |-> "FindVault", vault |-> vault, result |-> "Err"])
           ELSE Step(s, Committed("Ok", users, vaults, access_keys, secrets),
                     [cmd |-> "FindVault", vault |-> vault,
                      result |-> IF doc.present THEN "Found" ELSE "NotFound",
                      document |-> doc])

\* cmd::secret::insert: the data is base64 of the plaintext.
CmdInsertSecret(s, vault, secret_name, data, io) ==
    /\ InCommand(s)
    /\ LET plain == Base64Decode(data)
           ct == IF plain.ok THEN encrypt(plain.bytes) ELSE [ok |-> FALSE]
           txn == IF ct.ok
                  THEN secret_insert(vault, secret_name,
                                     SecretDocument(Base64Encode(ct)), io)
                  ELSE Aborted
       IN  Step(s, txn, [cmd |-> "InsertSecret", vault |-> vault,
                         secret_name |-> secret_name, at |-> io,
                         result |-> txn.result])

\* cmd::secret::delete
CmdDeleteSecret(s, vault, secret_name, io) ==
    /\ InCommand(s)
    /\ LET txn == secret_delete(vault, secret_name, io)
       IN  Step(s, txn, [cmd |-> "DeleteSecret", vault |-> vault,
                         secret_name |-> secret_name, at |-> io,
                         result |-> txn.result])

\* A faulty variant: the row holds the secret-access-key itself.
create_plain(vault, sg, permission, access_key, secret_access_key, io) ==
    LET parsed == ParseSg(sg)
    IN  IF ~parsed.ok THEN Aborted
        ELSE access_insert(vault, access_key,
                           AccessKeyDocument(Base64Encode([plain |-> secret_access_key]),
                                             permission, parsed.sg), io)

\* access_keys::create as run by cmd::access::insert: an id that is not in the
\* vault is drawn, then the secret-access-key; the security groups are parsed;
\* the row holds the signature of the secret-access-key.
create(vault, sg, permission, access_key, secret_access_key, io) ==
    LET parsed == ParseSg(sg)
    IN  IF ~parsed.ok THEN Aborted
        ELSE access_insert(vault, access_key,
                           AccessKeyDocument(sign_secret(secret_access_key),
                                             permission, parsed.sg), io)

CmdCreateAccessKey(s, vault, sg, permission, access_key, secret_access_key, io) ==
    /\ InCommand(s)
    /\ ~Find(access_keys, <<vault, access_key>>).present
    /\ LET txn == create(vault, sg, permission, access_key, secret_access_key, io)
       IN  Step(s, txn,
                IF txn.result = "Err"
                THEN [cmd |-> "CreateAccessKey", vault |-> vault, at |-> io,
                      result |-> "Err"]
                ELSE [cmd |-> "CreateAccessKey", vault |-> vault, at |-> io,
                      result |-> "Ok",
                      access_key |-> access_key,
                      secret_access_key |-> secret_access_key])

\* cmd::access::change_permission
CmdChangePermissionForAccessKey(s, vault, access_key, permission, io) ==
    /\ InCommand(s)
    /\ LET txn == access_change_permission(vault, access_key, permission, io)
       IN  Step(s, txn, [cmd |-> "ChangePermissionForAccessKey", vault |-> vault,
                         access_key |-> access_key, permission |-> permission,
                         fault |-> (io # "ok"), result |-> txn.result])

\* ChangeSgForAccessKey: access_keys::change_sg parses the "network/prefix"
\* strings and runs db::access::change_sg.
CmdChangeSgForAccessKey(s, vault, access_key, sg, io) ==
    /\ InCommand(s)
    /\ LET parsed == ParseSg(sg)
           txn == IF ~parsed.ok THEN Aborted
                  ELSE access_change_sg(vault, access_key, parsed.sg, io)
       IN  Step(s, txn, [cmd |-> "ChangeSgForAccessKey", vault |-> vault,
                         access_key |-> access_key, sg |-> sg,
                         fault |-> (io # "ok"), result |-> txn.result])

\* access_keys::create in two steps, for creations that run side by side on
\* two workers.  First the loop that draws the id: a draw that db::access::find
\* finds in the vault is dropped and the loop draws again (the session stays
\* where it is); a draw that is free is kept.
CreateKeyDraw(s, vault, access_key) ==
    /\ InCommand(s)
    /\ sess' = [sess EXCEPT ![s] =
          IF Find(access_keys, <<vault, access_key>>).present
          THEN [@ EXCEPT !.resp = [cmd |-> "draw", vault |-> vault,
                                   access_key |-> access_key, result |-> "again"]]
          ELSE [@ EXCEPT !.resp = [cmd |-> "draw", vault |-> vault,
                                   access_key |-> access_key, result |-> "kept"],
                         !.pc = "keydrawn"]]
    /\ UNCHANGED <<tables, req, host>>

\* Then the rest of create with the id that was kept, and the response.
CreateKeyInsert(s, sg, permission, secret_access_key, io) ==
    /\ sess[s].pc = "keydrawn"
    /\ LET vault == sess[s].resp.vault
           access_key == sess[s].resp.access_key
           txn == create(vault, sg, permission, access_key, secret_access_key, io)
           resp == [cmd |-> "CreateAccessKey", vault |-> vault, at |-> io,
                    result |-> IF txn.result = "Err" THEN "Err" ELSE "Ok",
                    access_key |-> access_key,
                    secret_access_key |-> secret_access_key]
       IN  /\ Commit(txn)
           /\ sess' = [sess EXCEPT ![s] =
                 IF txn.result = "Err"
                 THEN AfterErr([@ EXCEPT !.pc = "command"],
                               [resp EXCEPT !.secret_access_key = ""])
                 ELSE AfterSend([@ EXCEPT !.pc = "command"], resp)]
    /\ UNCHANGED <<req, host>>

\* The entry FindAccessKey and ListAccessKeys give for a row: its id, its
\* permissions, its security groups as text and its last use.
ResponseEntry(access_key, document) ==
    [access_key |-> access_key, permission |-> document.permission,
     sg |-> [i \in 1..Len(document.sg) |->
               WireSg(document.sg[i].network, document.sg[i].prefix)],
     last_used |-> document.last_used]

\* cmd::access::find
CmdFindAccessKey(s, vault, access_key, io) ==
    /\ InCommand(s)
    /\ LET document == Find(access_keys, <<vault, access_key>>)
       IN  IF io = "fail"
           THEN Step(s, Aborted, [cmd |-> "FindAccessKey", vault |-> vault,
                                  result |-> "Err"])
           ELSE Step(s, Committed("Ok", users, vaults, access_keys, secrets),
                     IF document.present
                     THEN [cmd |-> "FindAccessKey", vault |-> vault, result |-> "Found",
                           entry |-> ResponseEntry(access_key, document)]
                     ELSE [cmd |-> "FindAccessKey", vault |-> vault,
                           result |-> "NotFound"])

\* cmd::access::list
CmdListAccessKeys(s, vault, io) ==
    /\ InCommand(s)
    /\ IF io = "fail"
       THEN Step(s, Aborted, [cmd |-> "ListAccessKeys", vault |-> vault,
                              result |-> "Err"])
       ELSE Step(s, Committed("Ok", users, vaults, access_keys, secrets),
                 [cmd |-> "ListAccessKeys", vault |-> vault, result |-> "Ok",
                  access_keys |-> {ResponseEntry(k[2], access_keys[k]) :
                                     k \in RowsOf(access_keys, vault)}])

\* DeleteAccessKey: access_keys::delete_access_key
CmdDeleteAccessKey(s, vault, access_key, io) ==
    /\ InCommand(s)
    /\ LET txn == access_delete(vault, access_key, io)
       IN  Step(s, txn, [cmd |-> "DeleteAccessKey", vault |-> vault,
                         access_key |-> access_key, at |-> io,
                         result |-> txn.result])

\* The role of the user of the session, as the user handlers read it at the
\* start: "Err" when the user is no longer in the table.
ExecuterRole(s) ==
    LET executer == Find(users, sess[s].username)
    IN  IF executer.present THEN executer.role ELSE "Err"

\* user::create_user
create_user(username, password, role, sg, io) ==
    LET parsed == ParseSg(sg)
    IN  IF ~parsed.ok THEN Aborted
        ELSE user_insert(username,
                         UserDocument(hash_password(password), role, parsed.sg), io)

\* A faulty variant: the role of the executer is not looked at.
AdminOnly_open(s, txn, io) ==
    IF io = "fail" \/ ExecuterRole(s) = "Err" THEN Aborted ELSE txn

\* A handler that is for Admin only: the executer is read first (a storage
\* failure or a user that is gone is an error); the transaction runs for an
\* Admin, the answer is Denied for a User.
AdminOnly(s, txn, io) ==
    IF io = "fail" \/ ExecuterRole(s) = "Err" THEN Aborted
    ELSE IF ExecuterRole(s) = "Admin" THEN txn
    ELSE Committed("Denied", users, vaults, access_keys, secrets)

\* cmd::user::insert
CmdCreateUser(s, username, password, role, sg, io) ==
    /\ InCommand(s)
    /\ LET txn == AdminOnly(s, create_user(username, password, role, sg, io), io)
       IN  Step(s, txn, [cmd |-> "CreateUser", username |-> username, role |-> role,
                         fault |-> (io = "fail"), result |-> txn.result])

\* cmd::user::delete
CmdDeleteUser(s, username, io) ==
    /\ InCommand(s)
    /\ LET txn == AdminOnly(s, user_delete(username, io), io)
       IN  Step(s, txn, [cmd |-> "DeleteUser", username |-> username,
                         fault |-> (io = "fail"), result |-> txn.result])

\* cmd::user::promote
CmdPromoteUser(s, username, io) ==
    /\ InCommand(s)
    /\ LET txn == AdminOnly(s, change_role(username, "Admin", io), io)
       IN  Step(s, txn, [cmd |-> "PromoteUser", username |-> username,
                         fault |-> (io = "fail"), result |-> txn.result])

\* db::user::change_sg: the security groups of the row are replaced.
db_change_sg(username, sg, io) ==
    IF users[username].present
    THEN WriteTxn("Changed",
                  <<Begun, Written([users EXCEPT ![username].sg = sg],
                                   vaults, access_keys, secrets)>>, io)
    ELSE WriteTxn("NotFound", <<Begun>>, io)

\* user::change_sg: the "network/prefix" strings are parsed first.
change_sg(username, sg, io) ==
    LET parsed == ParseSg(sg)
    IN  IF ~parsed.ok THEN Aborted ELSE db_change_sg(username, parsed.sg, io)

\* A faulty variant: neither the role nor the name of the executer is looked at.
AdminOrSelf_open(s, username, txn, io) ==
    IF io = "fail" \/ ExecuterRole(s) = "Err" THEN Aborted ELSE txn

\* A handler for an Admin or for the user the request names: the executer is
\* read first (a storage failure or a user that is gone is an error).
AdminOrSelf(s, username, txn, io) ==
    IF io = "fail" \/ ExecuterRole(s) = "Err" THEN Aborted
    ELSE IF ExecuterRole(s) = "Admin" \/ username = sess[s].username THEN txn
    ELSE Committed("Denied", users, vaults, access_keys, secrets)

\* cmd::user::change_sg
CmdChangeSgForUser(s, username, sg, io) ==
    /\ InCommand(s)
    /\ LET txn == AdminOrSelf(s, username, change_sg(username, sg, io), io)
       IN  Step(s, txn, [cmd |-> "ChangeSgForUser", username |-> username,
                         sg |-> sg, fault |-> (io = "fail"),
                         result |-> txn.result])

(***************************************************************************)
(* The data plane (vault/mod.rs, get.rs, insert.rs, delete.rs, list.rs).   *)
(*   pc        where the handler stands                                    *)
(*   header    the credentials of the Authorization header, if it has any  *)
(*   decision  what initialize_request returned                            *)
(*   fault     whether the storage failed under access_check               *)
(*   doc       the access-key row access_check read                        *)
(*   purged    whether the decision was made with DeleteVault of the vault *)
(*             of the request as the last thing an admin session has done  *)
(*   failed    whether the storage failed under the handler itself         *)
(*   delays    suspensions of access_keys::delay() so far                  *)
(*   status    the status of the response, 0 while there is none           *)
(*   sent      the body of a 200 response to GET                           *)
(***************************************************************************)
NoAddr == [fam |-> 0]       \* the peer address is missing or does not parse
NoHeader == [valid |-> FALSE]
Credentials(access_key, secret_access_key) ==
    [valid |-> TRUE, access_key |-> access_key, secret_access_key |-> secret_access_key]

NoPlain == Plain("", 0)

NoRequest ==
    [pc |-> "idle", method |-> "GET", vault |-> "", secret_name |-> "",
     ip |-> NoAddr, header |-> NoHeader, body |-> NoPlain,
     decision |-> "none", fault |-> FALSE, doc |-> NoRow, purged |-> FALSE,
     failed |-> FALSE, delays |-> 0, status |-> 0, sent |-> NoPlain,
     listed |-> {}]

\* The permission each endpoint asks initialize_request for.
RequiredPermission(method) ==
    CASE method = "LIST" -> "ListSecrets"
      [] method = "GET" -> "DecryptSecrets"
      [] method \in {"POST", "PUT"} -> "CreateSecrets"
      [] method = "DELETE" -> "DeleteSecrets"

\* A request arrives.
DpReceive(r, method, vault, secret_name, ip, header, body) ==
    /\ req[r].pc \in {"idle", "done"}
    /\ req' = [req EXCEPT ![r] =
                 [NoRequest EXCEPT !.pc = "auth", !.method = method, !.vault = vault,
                                   !.secret_name = secret_name, !.ip = ip,
                                   !.header = header, !.body = body]]
    /\ UNCHANGED <<tables, sess, host>>

\* initialize_request up to the result of access_check: None for an error,
\* else what access_check said.
Decision(rq, io) ==
    IF rq.ip = NoAddr THEN "None"
    ELSE IF ~rq.header.valid THEN "Unauthorized"
    ELSE IF io = "fail" THEN "None"
    ELSE LET d == access_check(rq.ip, rq.header.access_key,
                               rq.header.secret_access_key,
                               RequiredPermission(rq.method), rq.vault)
         IN  IF d = "Err" THEN "None" ELSE d

\* A faulty variant: the 500 for an error of initialize_request is written at
\* once, without the delay.
AfterDecision_nodelay(decision) ==
    CASE decision = "Authorized" -> "refresh"
      [] decision = "Unauthorized" -> "delay401"
      [] decision = "None" -> "write500"

\* Where a handler goes with the result of initialize_request: on with the
\* request when it is Authorized, into access_keys::delay() when it is not.
AfterDecision(decision) ==
    CASE decision = "Authorized" -> "refresh"
      [] decision = "Unauthorized" -> "delay401"
      [] decision = "None" -> "delay500"

\* The last command of session s was a DeleteVault of the vault that
\* returned Deleted.
DeletedLast(s, vault) ==
    /\ sess[s].resp.cmd = "DeleteVault"
    /\ sess[s].resp.result = "Deleted"
    /\ sess[s].resp.vault = vault

DpAuthorize(r, io) ==
    /\ req[r].pc = "auth"
    /\ LET d == Decision(req[r], io)
       IN  req' = [req EXCEPT ![r].decision = d,
                              ![r].fault = (io = "fail"),
                              ![r].doc = IF req[r].header.valid
                                         THEN Find(access_keys,
                                                   <<req[r].vault, req[r].header.access_key>>)
                                         ELSE NoRow,
                              ![r].purged = \E s \in Sessions :
                                               DeletedLast(s, req[r].vault),
                              ![r].pc = AfterDecision(d)]
    /\ UNCHANGED <<tables, sess, host>>

\* A faulty variant: a refresh that fails ends the request with a 500.
DpRefresh_fatal(r, io) ==
    /\ req[r].pc = "refresh"
    /\ Commit(refresh_access_time(req[r].vault, req[r].header.access_key, io))
    /\ req' = [req EXCEPT ![r].pc = IF io = "ok" THEN "handle" ELSE "delay500"]
    /\ UNCHANGED <<sess, host>>

\* The refresh of last_used in initialize_request: its own write transaction,
\* whose failure is only logged.
DpRefresh(r, io) ==
    /\ req[r].pc = "refresh"
    /\ Commit(refresh_access_time(req[r].vault, req[r].header.access_key, io))
    /\ req' = [req EXCEPT ![r].pc = "handle"]
    /\ UNCHANGED <<sess, host>>

\* access_keys::delay() has elapsed.
DpDelay(r) ==
    /\ req[r].pc \in {"delay401", "delay500"}
    /\ req' = [req EXCEPT ![r].delays = @ + 1,
                          ![r].pc = IF req[r].pc = "delay401" THEN "write401"
                                    ELSE "write500"]
    /\ UNCHANGED <<tables, sess, host>>

\* The response after the delay is written.
DpRefuse(r) ==
    /\ req[r].pc \in {"write401", "write500"}
    /\ req' = [req EXCEPT ![r].status = IF req[r].pc = "write401" THEN 401 ELSE 500,
                          ![r].pc = "done"]
    /\ UNCHANGED <<tables, sess, host>>

\* db::secret::list: the whole table is walked and the names of the rows
\* whose key carries the vault are collected.
secret_list(vault) ==
    {k[2] : k \in {j \in DOMAIN secrets : secrets[j].present /\ j[1] = vault}}

\* req_list after authorization
DpList(r, io) ==
    /\ req[r].pc = "handle"
    /\ req[r].method = "LIST"
    /\ req' = [req EXCEPT ![r].status = IF io = "fail" THEN 500 ELSE 200,
                          ![r].listed = IF io = "fail" THEN {}
                                        ELSE secret_list(req[r].vault),
                          ![r].failed = (io = "fail"),
                          ![r].pc = "done"]
    /\ UNCHANGED <<tables, sess, host>>

\* req_get after authorization
DpGet(r, io) ==
    /\ req[r].pc = "handle"
    /\ req[r].method = "GET"
    /\ LET doc == Find(secrets, <<req[r].vault, req[r].secret_name>>)
           bytes == IF doc.present THEN Base64Decode(doc.secret) ELSE [ok |-> FALSE]
           plain == IF bytes.ok THEN decrypt(bytes.bytes) ELSE [ok |-> FALSE]
       IN  req' = [req EXCEPT
                     ![r].status = IF io = "fail" THEN 500
                                   ELSE IF ~doc.present THEN 404
                                   ELSE IF ~plain.ok THEN 500
                                   ELSE 200,
                     ![r].sent = IF io # "fail" /\ plain.ok THEN plain.plain ELSE NoPlain,
                     ![r].failed = (io = "fail"),
                     ![r].pc = "done"]
    /\ UNCHANGED <<tables, sess, host>>

\* insert_secret without its check of data.is_empty()
DpInsert_noempty(r, io) ==
    /\ req[r].pc = "handle"
    /\ req[r].method \in {"POST", "PUT"}
    /\ LET ct == encrypt(req[r].body)
           txn == IF ~ct.ok THEN Aborted
                  ELSE secret_insert(req[r].vault, req[r].secret_name,
                                     SecretDocument(Base64Encode(ct)), io)
       IN  /\ Commit(txn)
           /\ req' = [req EXCEPT
                        ![r].status = IF txn.result = "Inserted" THEN 201
                                      ELSE IF txn.result = "Updated" THEN 200
                                      ELSE 500,
                        ![r].failed = (ct.ok /\ io # "ok"),
                        ![r].pc = "done"]
    /\ UNCHANGED <<sess, host>>

\* insert_secret (req_post and req_put) after authorization
DpInsert(r, io) ==
    /\ req[r].pc = "handle"
    /\ req[r].method \in {"POST", "PUT"}
    /\ LET ct == encrypt(req[r].body)
           txn == IF req[r].body.len = 0 \/ ~ct.ok THEN Aborted
                  ELSE secret_insert(req[r].vault, req[r].secret_name,
                                     SecretDocument(Base64Encode(ct)), io)
       IN  /\ Commit(txn)
           /\ req' = [req EXCEPT
                        ![r].status = IF req[r].body.len = 0 THEN 422
                                      ELSE IF txn.result = "Inserted" THEN 201
                                      ELSE IF txn.result = "Updated" THEN 200
                                      ELSE 500,
                        ![r].failed = (req[r].body.len > 0 /\ ct.ok /\ io # "ok"),
                        ![r].pc = "done"]
    /\ UNCHANGED <<sess, host>>

\* req_delete after authorization
DpDelete(r, io) ==
    /\ req[r].pc = "handle"
    /\ req[r].method = "DELETE"
    /\ LET txn == secret_delete(req[r].vault, req[r].secret_name, io)
       IN  /\ Commit(txn)
           /\ req' = [req EXCEPT
                        ![r].status = IF txn.result = "Deleted" THEN 200
                                      ELSE IF txn.result = "NotFound" THEN 404
                                      ELSE 500,
                        ![r].failed = (io # "ok"),
                        ![r].pc = "done"]
    /\ UNCHANGED <<sess, host>>

(***************************************************************************)
(* The state after main::initialize_db on a fresh database: the one user   *)
(* `root`, an Admin who may log in from 127.0.0.1/32, and nothing else.    *)
(***************************************************************************)
Loopback == Ip4(127, 0, 0, 1)
Inside == Ip4(10, 1, 2, 3)          \* an address in 10.0.0.0/8
Outside == Ip4(192, 168, 0, 9)      \* an address in 192.168.0.0/16

RootPassword == "pw1"               \* the generated password of root

INITIAL_USERNAME == "root"
INITIAL_SECURITY_GROUP == <<WireSg(NetLit(Loopback), 32)>>

\* A record of the log of initialize_db; password is "" where the record
\* carries none.
LogRecord(msg, password) == [msg |-> msg, password |-> password]

\* The host: whether the KV file exists (kv_file), where the process is
\* (pc: "down", "created" between db::initialize and create_user, "up"),
\* the starts so far, whether the last start found the KV file, and the
\* records initialize_db has logged.
Host(kv_file, pc, starts, found, log) ==
    [kv_file |-> kv_file, pc |-> pc, starts |-> starts, found |-> found, log |-> log]

\* The host after the first start on an empty data directory.
Booted ==
    Host(TRUE, "up", 1, FALSE, <<LogRecord("root user created", RootPassword)>>)

Init ==
    /\ host = Booted
    /\ users = [u \in UserNames |->
                  IF u = "root"
                  THEN UserDocument(hash_password(RootPassword), "Admin",
                                    <<Sg(NetLit(Loopback), 32)>>)
                  ELSE NoRow]
    /\ vaults = [v \in Vaults |-> NoRow]
    /\ access_keys = [k \in Vaults \X AccessKeyIds |-> NoRow]
    /\ secrets = [k \in Vaults \X SecretNames |-> NoRow]
    /\ sess = [s \in Sessions |-> NoSession]
    /\ req = [r \in Requests |-> NoRequest]

Io == {"ok", "fail"}

TenNet == <<WireSg(NetLit(Ip4(10, 0, 0, 0)), 8)>>

SmallSecret == Plain("a", 1)

(***************************************************************************)
(* The whole server: root administers two vaults over one connection while *)
(* a holder of the access key k1 writes to the first vault.                *)
(***************************************************************************)
Next ==
    \/ \E s \in Sessions :
         \/ Connect(s, Loopback)
         \/ PeerDisconnect(s)
         \/ LoginFrame(s, "root", RootPassword, "ok", "ok")
         \/ LoginClose(s)
         \/ StreamError(s)
         \/ ErrorFrame(s)
         \/ \E v \in Vaults, io \in Io : CmdDeleteVault(s, v, io)
         \/ \E v \in Vaults, io \in Io :
              CmdInsertSecret(s, v, "s1", Base64Encode(SmallSecret), io)
         \/ \E io \in Io : CmdDeleteSecret(s, "v1", "s1", io)
         \/ \E io \in Io :
              CmdCreateAccessKey(s, "v1", TenNet, VaultPermissions, "k1", "sakA", io)
         \/ \E io \in Io : CmdDeleteAccessKey(s, "v1", "k1", io)
    \/ \E r \in Requests :
         \/ \E m \in {"POST", "PUT", "DELETE"} :
              DpReceive(r, m, "v1", "s1", Inside, Credentials("k1", "sakA"),
                        IF m = "DELETE" THEN NoPlain ELSE SmallSecret)
         \/ \E io \in Io : DpAuthorize(r, io)
         \/ \E io \in Io : DpRefresh(r, io)
         \/ DpDelay(r)
         \/ DpRefuse(r)
         \/ \E io \in Io : DpInsert(r, io)
         \/ \E io \in Io : DpDelete(r, io)

Spec == Init /\ [][Next]_vars

(***************************************************************************)
(* The data plane against one access key.  The key k1 of v1 is one that    *)
(* CreateAccessKey has stored before (create keeps whatever network text   *)
(* and whatever i32 prefix it was given), or it was never created.         *)
(***************************************************************************)
Net10 == NetLit(Ip4(10, 0, 0, 0))
Net192 == NetLit(Ip4(192, 168, 0, 0))

SgChoices ==
    { <<>>,
      <<Sg(Net10, 8)>>,
      <<Sg(Net192, 16), Sg(Net10, 8)>>,
      <<Sg(NetLit(Ip4(10, 1, 2, 2)), 31)>>,
      <<Sg(NetLit(Ip4(10, 1, 2, 4)), 30)>>,
      <<Sg(NetLit(Ip4(0, 0, 0, 0)), 0)>>,
      <<Sg(NetLit(Ip6Loopback), 128)>>,
      <<Sg(BadLit, 8), Sg(Net10, 8)>>,
      <<Sg(Net10, 8), Sg(BadLit, 8)>>,
      <<Sg(Net10, 33)>>,
      <<Sg(Net192, 33), Sg(Net10, 8)>>,
      <<Sg(Net10, 8), Sg(Net192, 33)>>,
      <<Sg(NetLit(Ip6Loopback), 129)>>,
      <<Sg(Net10, -1)>>,
      <<Sg(NetLit(Ip4(0, 0, 0, 0)), -256)>> }

PermissionChoices == {VaultPermissions, {"ListSecrets", "DecryptSecrets"}, {}}

KeyDocs ==
    {AccessKeyDocument(sign_secret("sakA"), p, g) : p \in PermissionChoices, g \in SgChoices}

\* The state after the bootstrap and, for a document of docs, after the
\* CreateAccessKey that stored it as k1 of v1.
Keyed(docs) ==
    /\ host = Booted
    /\ users = [u \in UserNames |->
                  IF u = "root"
                  THEN UserDocument(hash_password(RootPassword), "Admin",
                                    <<Sg(NetLit(Loopback), 32)>>)
                  ELSE NoRow]
    /\ \E d \in docs \cup {NoRow} :
          /\ access_keys = [k \in Vaults \X AccessKeyIds |->
                              IF k = <<"v1", "k1">> THEN d ELSE NoRow]
          /\ vaults = [v \in Vaults |->
                         IF v = "v1" /\ d.present THEN VaultDocument(0, 1) ELSE NoRow]
    /\ secrets = [k \in Vaults \X SecretNames |-> NoRow]
    /\ sess = [s \in Sessions |-> NoSession]
    /\ req = [r \in Requests |-> NoRequest]

Methods == {"LIST", "GET", "POST", "PUT", "DELETE"}

LargeSecret == Plain("b", BLOCK_SIZE)

\* The bodies a request of method m is sent with here.
Bodies(m, bodies) == IF m \in {"POST", "PUT"} THEN bodies ELSE {NoPlain}

Headers ==
    {NoHeader, Credentials("k1", "sakA"), Credentials("k1", "sakB"),
     Credentials("k2", "sakA")}

\* The handlers of the data plane once a request has arrived.
DpServe(r) ==
    \/ \E io \in Io : DpAuthorize(r, io)
    \/ \E io \in Io : DpRefresh(r, io)
    \/ DpDelay(r)
    \/ DpRefuse(r)
    \/ \E io \in Io : DpList(r, io)
    \/ \E io \in Io : DpGet(r, io)
    \/ \E io \in Io : DpInsert(r, io)
    \/ \E io \in Io : DpDelete(r, io)

NextAccess ==
    \E r \in Requests :
       \/ \E m \in Methods, a \in {Inside, Outside, Ip6Loopback, NoAddr}, h \in Headers :
            \E b \in Bodies(m, {NoPlain, SmallSecret, LargeSecret}) :
               DpReceive(r, m, "v1", "s1", a, h, b)
       \/ DpServe(r)

SpecAccess == Keyed(KeyDocs) /\ [][NextAccess]_vars

(***************************************************************************)
(* The envelope on the data plane: secrets of the lengths around the RSA   *)
(* block size are stored and read back with a key that may do everything.  *)
(***************************************************************************)
FullKey == AccessKeyDocument(sign_secret("sakA"), VaultPermissions, <<Sg(Net10, 8)>>)

PlainLengths == {1, 485, 486, 511, 512, 513, 1024, 1025}
Plaintexts == {Plain("p", n) : n \in PlainLengths}

NextEnvelope ==
    \E r \in Requests :
       \/ \E m \in {"GET", "POST", "PUT"} :
            \E b \in Bodies(m, Plaintexts) :
               DpReceive(r, m, "v1", "s1", Inside, Credentials("k1", "sakA"), b)
       \/ \E io \in Io : DpAuthorize(r, io)
       \/ \E io \in Io : DpRefresh(r, io)
       \/ DpDelay(r)
       \/ DpRefuse(r)
       \/ \E io \in Io : DpGet(r, io)
       \/ \E io \in Io : DpInsert(r, io)

SpecEnvelope == Keyed({FullKey}) /\ [][NextEnvelope]_vars

(***************************************************************************)
(* The admin plane: logins of root and bob from inside and outside their   *)
(* security group, with right and wrong passwords, and the user commands.  *)
(***************************************************************************)
LoopbackOnly == <<WireSg(NetLit(Loopback), 32)>>

NotBase64 == [text |-> "?"]         \* a data field that is no base64 text

NextSession ==
    \E s \in Sessions :
       \/ \E a \in {Loopback, Outside} : Connect(s, a)
       \/ PeerDisconnect(s)
       \/ \E u \in UserNames, p \in Passwords, io \in Io, stamp \in Io :
            LoginFrame(s, u, p, io, stamp)
       \/ LoginNoRequest(s)
       \/ LoginDelay(s)
       \/ LoginDenied(s)
       \/ LoginClose(s)
       \/ StreamError(s)
       \/ ErrorFrame(s)
       \/ CmdUnparsable(s)
       \/ \E io \in Io : CmdFindVault(s, "v1", io)
       \/ \E d \in {Base64Encode(SmallSecret), Base64Encode(LargeSecret), NotBase64},
             io \in Io :
            CmdInsertSecret(s, "v1", "s1", d, io)
       \/ \E role \in {"User", "Admin"}, io \in Io,
             sg \in {LoopbackOnly, <<WireNoSlash>>, <<WireBadPrefix>>} :
            CmdCreateUser(s, "bob", "pw2", role, sg, io)
       \/ \E u \in UserNames, io \in Io : CmdDeleteUser(s, u, io)
       \/ \E io \in Io : CmdPromoteUser(s, "bob", io)

SpecSession == Init /\ [][NextSession]_vars

(***************************************************************************)
(* Access keys from their creation to their use: root creates and deletes  *)
(* the key k1 of v1 while requests present one or the other secret.        *)
(***************************************************************************)
TwoNets == <<WireSg(Net192, 16), WireSg(Net10, 8)>>
BadNet == <<WireSg(BadLit, 8)>>

NextKeys ==
    \/ \E s \in Sessions :
         \/ Connect(s, Loopback)
         \/ PeerDisconnect(s)
         \/ LoginFrame(s, "root", RootPassword, "ok", "ok")
         \/ LoginClose(s)
         \/ StreamError(s)
         \/ ErrorFrame(s)
         \/ \E sg \in {TwoNets, BadNet}, sak \in SecretAccessKeys, io \in Io :
              CmdCreateAccessKey(s, "v1", sg, {"ListSecrets"}, "k1", sak, io)
         \/ CmdDeleteAccessKey(s, "v1", "k1", "ok")
         \/ \E io \in Io : CmdFindAccessKey(s, "v1", "k1", io)
         \/ \E io \in Io : CmdListAccessKeys(s, "v1", io)
    \/ \E r \in Requests :
         \/ \E m \in {"LIST", "GET"}, a \in {Inside, Loopback}, sak \in SecretAccessKeys :
              DpReceive(r, m, "v1", "s1", a, Credentials("k1", sak), NoPlain)
         \/ \E io \in Io : DpAuthorize(r, io)
         \/ DpRefresh(r, "ok")
         \/ DpDelay(r)
         \/ DpRefuse(r)
         \/ DpList(r, "ok")

SpecKeys == Init /\ [][NextKeys]_vars

(***************************************************************************)
(* The write transactions with the storage failing at each of their steps: *)
(* root creates and deletes the key and the secret of v1 and deletes v1    *)
(* while a holder of the key writes to v1.                                 *)
(***************************************************************************)
TxnIo == {"ok"} \cup FailPoints

NextTxn ==
    \/ \E s \in Sessions :
         \/ Connect(s, Loopback)
         \/ PeerDisconnect(s)
         \/ LoginFrame(s, "root", RootPassword, "ok", "ok")
         \/ LoginClose(s)
         \/ StreamError(s)
         \/ ErrorFrame(s)
         \/ \E io \in TxnIo : CmdDeleteVault(s, "v1", io)
         \/ \E io \in TxnIo :
              CmdInsertSecret(s, "v1", "s1", Base64Encode(SmallSecret), io)
         \/ \E io \in TxnIo : CmdDeleteSecret(s, "v1", "s1", io)
         \/ \E io \in TxnIo :
              CmdCreateAccessKey(s, "v1", TenNet, VaultPermissions, "k1", "sakA", io)
         \/ \E io \in TxnIo : CmdDeleteAccessKey(s, "v1", "k1", io)
    \/ \E r \in Requests :
         \/ \E m \in {"POST", "DELETE"} :
              DpReceive(r, m, "v1", "s1", Inside, Credentials("k1", "sakA"),
                        IF m = "DELETE" THEN NoPlain ELSE SmallSecret)
         \/ DpAuthorize(r, "ok")
         \/ \E io \in TxnIo : DpRefresh(r, io)
         \/ DpDelay(r)
         \/ DpRefuse(r)
         \/ \E io \in TxnIo : DpInsert(r, io)
         \/ \E io \in TxnIo : DpDelete(r, io)

SpecTxn == Init /\ [][NextTxn]_vars

(***************************************************************************)
(* What a security group grants, said without the loop of the code.        *)
(***************************************************************************)
\* A security group every entry of which has a network that parses and a
\* prefix within the width of its family.
WellFormedSg(sg) ==
    \A i \in 1..Len(sg) :
        /\ sg[i].network.parses
        /\ sg[i].prefix >= 0
        /\ sg[i].prefix <= MaxPrefix(sg[i].network.ip)

\* The address lies in the network of at least one entry.
IpInSomeCidr(sg, ip) ==
    \E i \in 1..Len(sg) : NetworkContains(sg[i].network.ip, sg[i].prefix, ip)

(***************************************************************************)
(* Properties of the store.                                                *)
(***************************************************************************)
\* C1: in every committed state, the secrets_count of every vault row is the
\* number of secret rows keyed (vault, *) and its access_keys_count is the
\* number of access-key rows keyed (vault, *), whatever admin commands
\* (InsertSecret, DeleteSecret, CreateAccessKey, DeleteAccessKey, DeleteVault)
\* and data-plane POST, PUT and DELETE requests have run, failed ones included.
C1_CountersMatchRows ==
    \A v \in Vaults :
        vaults[v].present =>
            /\ vaults[v].secrets_count = Cardinality(RowsOf(secrets, v))
            /\ vaults[v].access_keys_count = Cardinality(RowsOf(access_keys, v))

\* The data plane has deleted the secret of v1, whose access key is still
\* counted, while v2 holds a secret put there by the admin.
C1_Witness ==
    /\ \E r \in Requests : req[r].method = "DELETE" /\ req[r].status = 200
    /\ vaults["v1"].present
    /\ vaults["v1"].secrets_count = 0
    /\ vaults["v1"].access_keys_count = 1
    /\ vaults["v2"].present
    /\ vaults["v2"].secrets_count = 1

\* The step of session s is a run of the DeleteVault handler.
DeleteVaultStep(s) ==
    /\ sess'[s].nIn = sess[s].nIn + 1
    /\ sess'[s].resp.cmd = "DeleteVault"

\* C2: when DeleteVault(V) returns Deleted, the committed state has no vault
\* row V, no access-key row and no secret row keyed (V, *), and the rows of
\* every other vault and of the users are as they were; when it returns
\* NotFound, no table has changed.
C2_DeleteVault ==
    [][\A s \in Sessions :
          DeleteVaultStep(s) =>
            LET V == sess'[s].resp.vault
            IN  /\ sess'[s].resp.result = "Deleted" =>
                     /\ vaults[V].present
                     /\ ~vaults'[V].present
                     /\ RowsOf(access_keys', V) = {}
                     /\ RowsOf(secrets', V) = {}
                     /\ \A w \in Vaults \ {V} : vaults'[w] = vaults[w]
                     /\ \A k \in DOMAIN access_keys :
                           k[1] # V => access_keys'[k] = access_keys[k]
                     /\ \A k \in DOMAIN secrets :
                           k[1] # V => secrets'[k] = secrets[k]
                     /\ users' = users
                /\ sess'[s].resp.result = "NotFound" =>
                     /\ ~vaults[V].present
                     /\ tables' = tables
                /\ sess'[s].resp.result = "Err" => tables' = tables
      ]_vars

\* DeleteVault(v1) has returned Deleted after the data plane had inserted a
\* secret into v1; nothing is left of v1 and the secret of v2 is still there.
C2_Witness ==
    /\ \E s \in Sessions :
          /\ sess[s].resp.cmd = "DeleteVault"
          /\ sess[s].resp.vault = "v1"
          /\ sess[s].resp.result = "Deleted"
    /\ \E r \in Requests : req[r].method = "POST" /\ req[r].status = 201
    /\ RowsOf(secrets, "v1") = {}
    /\ RowsOf(secrets, "v2") # {}

\* The step of session s is a run of the handler of a command that writes to
\* more than one table.
StoreCommandStep(s) ==
    /\ sess'[s].nIn = sess[s].nIn + 1
    /\ sess'[s].resp.cmd \in {"InsertSecret", "DeleteSecret", "CreateAccessKey",
                              "DeleteAccessKey", "DeleteVault"}

\* The step of request r is the write of an authorized POST, PUT or DELETE.
StoreRequestStep(r) ==
    /\ req[r].pc = "handle"
    /\ req'[r].pc = "done"
    /\ req[r].method \in {"POST", "PUT", "DELETE"}

\* C11: when a step of a multi-table write fails before the commit (the child
\* insert or delete, the update of the vault counter, the removal of the vault
\* row, either purge, or the commit itself), the committed users, vaults,
\* access-keys and secrets tables are exactly what they were before the
\* operation began.
C11_FailedWriteChangesNothing ==
    [][/\ \A s \in Sessions :
            (StoreCommandStep(s) /\ sess'[s].resp.result = "Err") => tables' = tables
       /\ \A r \in Requests :
            (StoreRequestStep(r) /\ req'[r].status = 500) => tables' = tables
      ]_vars

\* DeleteVault(v1) has failed in its last write, the purge of the secrets,
\* after the vault row and the access keys were removed in the transaction;
\* v1, its access key and its secret are all still there.
C11_Witness ==
    \E s \in Sessions :
        /\ sess[s].resp.cmd = "DeleteVault"
        /\ sess[s].resp.at = "w3"
        /\ sess[s].resp.result = "Err"
        /\ vaults["v1"] = VaultDocument(1, 1)
        /\ RowsOf(access_keys, "v1") # {}
        /\ RowsOf(secrets, "v1") # {}

(***************************************************************************)
(* Properties of the data plane.                                           *)
(***************************************************************************)
\* The request r has been decided on a header with credentials, from an
\* address that parses, with the storage working.
Decided(r) ==
    /\ req[r].pc \notin {"idle", "auth"}
    /\ req[r].ip # NoAddr
    /\ req[r].header.valid
    /\ ~req[r].fault

\* C3: access_check(vault, ak, sak, ip, permission) returns Authorized exactly
\* when the row (vault, ak) exists, ip lies in at least one CIDR of its security
\* groups, the stored signature verifies over the presented sak, and the
\* permission is in its permission list; for well-formed security groups any
\* other case returns Unauthorized.
C3_AccessCheck ==
    \A r \in Requests :
        (Decided(r) /\ (req[r].doc.present => WellFormedSg(req[r].doc.sg))) =>
            /\ req[r].decision \in {"Authorized", "Unauthorized"}
            /\ req[r].decision = "Authorized" <=>
                  /\ req[r].doc.present
                  /\ IpInSomeCidr(req[r].doc.sg, req[r].ip)
                  /\ req[r].doc.secret_access_key
                       = sign_secret(req[r].header.secret_access_key)
                  /\ RequiredPermission(req[r].method) \in req[r].doc.permission

\* A request was authorized by the second entry of its key's security groups,
\* the first one not containing its address.
C3_Witness ==
    \E r \in Requests :
        /\ Decided(r)
        /\ req[r].decision = "Authorized"
        /\ req[r].doc.present
        /\ Len(req[r].doc.sg) = 2
        /\ WellFormedSg(req[r].doc.sg)
        /\ ~NetworkContains(req[r].doc.sg[1].network.ip, req[r].doc.sg[1].prefix,
                            req[r].ip)
        /\ req[r].doc.permission # VaultPermissions

HasInvalidPrefix(sg) ==
    \E i \in 1..Len(sg) :
        sg[i].network.parses /\ sg[i].prefix > MaxPrefix(sg[i].network.ip)

\* C14: when the stored security groups of the access key named in a request
\* hold an entry whose prefix is greater than 32 (IPv4 network) or 128 (IPv6
\* network), the authorizer fails the request with an internal error, answered
\* 500; the request is never Authorized, wherever the entry stands in the list.
C14_InvalidPrefixFails ==
    \A r \in Requests :
        (Decided(r) /\ req[r].doc.present /\ HasInvalidPrefix(req[r].doc.sg)) =>
            /\ req[r].decision = "None"
            /\ req[r].status \in {0, 500}

(***************************************************************************)
(* Properties of the admin session.                                        *)
(***************************************************************************)
\* The login attempt kept in resp passes authentication: the user exists, the
\* address of the connection lies in the user's security groups, and the
\* password is the one whose hash is stored.
AuthenticationPasses(attempt, ip) ==
    /\ attempt.user.present
    /\ WellFormedSg(attempt.user.sg)
    /\ IpInSomeCidr(attempt.user.sg, ip)
    /\ attempt.user.password = hash_password(attempt.password)

\* The login attempt kept in resp fails authentication: unknown user, address
\* outside the user's security groups, or wrong password.
AuthenticationFails(attempt, ip) ==
    /\ ~attempt.fault
    /\ \/ ~attempt.user.present
       \/ /\ WellFormedSg(attempt.user.sg)
          /\ \/ ~IpInSomeCidr(attempt.user.sg, ip)
             \/ attempt.user.password # hash_password(attempt.password)

\* C5: a session moves from Login to Command only on its first text frame,
\* when that frame has passed user authentication and the Granted frame has
\* been sent; no command is dispatched unless the state is Command; and a
\* session in Command never returns to Login (a state of Login after Command
\* is that of a new connection, accepted after the old one has ended).
C5_LoginThenCommand ==
    [][\A s \in Sessions :
          /\ (sess[s].state = "Login" /\ sess'[s].state = "Command") =>
                /\ sess[s].pc = "login"
                /\ sess[s].out = <<>>
                /\ sess'[s].resp.cmd = "Login"
                /\ sess'[s].username = sess'[s].resp.username
                /\ AuthenticationPasses(sess'[s].resp, sess[s].ip)
                /\ sess'[s].out = <<[e |-> "Granted"]>>
                /\ sess'[s].nIn = 0
          /\ sess'[s].nIn > sess[s].nIn =>
                sess[s].state = "Command" /\ sess'[s].state = "Command"
          /\ (sess[s].state = "Command" /\ sess'[s].state = "Login") =>
                Ended(s) /\ sess'[s] = NewSession(sess'[s].ip)
      ]_vars

\* bob, created by root as a User, has logged in and had a command answered.
C5_Witness ==
    \E s \in Sessions :
        /\ sess[s].state = "Command"
        /\ sess[s].username = "bob"
        /\ sess[s].nIn >= 1
        /\ Len(sess[s].out) >= 2
        /\ sess[s].out[1].e = "Granted"
        /\ sess[s].out[2].e = "response"

DelayEvent == [e |-> "delay"]
DeniedFrame == [e |-> "Denied", node_name |-> "null"]
CloseEvent == [e |-> "close"]

\* C6: when user authentication of the login frame fails (unknown user,
\* address outside the user's security groups, or wrong password), the session
\* goes through the delay, then the Denied frame with node_name null, then the
\* close of the connection, in this order, and never reaches Command.  (With a
\* peer that has gone by then the send of the Denied frame fails and the
\* frame is missing between the delay and the close.)
C6_DeniedAfterDelay ==
    \A s \in Sessions :
        (sess[s].resp.cmd = "Login" /\ AuthenticationFails(sess[s].resp, sess[s].ip)) =>
            /\ sess[s].state = "Login"
            /\ sess[s].nIn = 0
            /\ sess[s].pc \in {"loginFailed", "loginDenied", "closing", "closed"}
            /\ sess[s].pc = "loginFailed" => sess[s].out = <<>>
            /\ sess[s].pc = "loginDenied" => sess[s].out = <<DelayEvent>>
            /\ sess[s].pc = "closing" =>
                  \/ sess[s].out = <<DelayEvent, DeniedFrame>>
                  \/ ~sess[s].peer /\ sess[s].out = <<DelayEvent>>
            /\ sess[s].pc = "closed" =>
                  \/ sess[s].out = <<DelayEvent, DeniedFrame, CloseEvent>>
                  \/ ~sess[s].peer /\ sess[s].out = <<DelayEvent, CloseEvent>>
            /\ (sess[s].peer /\ sess[s].pc = "closed") =>
                  sess[s].out = <<DelayEvent, DeniedFrame, CloseEvent>>

\* root's login with a wrong password, from the address of its security
\* group, has ended in the delay, the Denied frame and the close.
C6_Witness ==
    \E s \in Sessions :
        /\ sess[s].resp.cmd = "Login"
        /\ sess[s].resp.username = "root"
        /\ sess[s].resp.user.present
        /\ sess[s].resp.password # RootPassword
        /\ sess[s].ip = Loopback
        /\ sess[s].pc = "closed"
        /\ sess[s].out = <<DelayEvent, DeniedFrame, CloseEvent>>

\* The frames 1..n each have their one answer in out, in the order read.
Answered(out, n) ==
    /\ Len(out) = 1 + n
    /\ out[1] = [e |-> "Granted"]
    /\ \A i \in 1..n : out[i + 1].e \in {"response", "error"} /\ out[i + 1].n = i

\* C7: in Command state each inbound text frame gets exactly one outbound
\* frame, the response of its handler or an error frame, as long as the send
\* succeeds; a frame is processed to completion before the next one is read,
\* so the answers are in the order of the frames.
C7_OneFramePerFrame ==
    \A s \in Sessions :
        (sess[s].state = "Command" /\ sess[s].peer) =>
            /\ sess[s].pc \in {"command", "errframe"}
            /\ sess[s].pc = "command" => Answered(sess[s].out, sess[s].nIn)
            /\ sess[s].pc = "errframe" =>
                  sess[s].nIn >= 1 /\ Answered(sess[s].out, sess[s].nIn - 1)

\* Two frames have been read, the first answered by an error frame and the
\* second by the response of its handler.
C7_Witness ==
    \E s \in Sessions :
        /\ sess[s].state = "Command"
        /\ sess[s].peer
        /\ sess[s].pc = "command"
        /\ sess[s].nIn = 2
        /\ sess[s].out[2] = [e |-> "error", n |-> 1]
        /\ sess[s].out[3].e = "response"
        /\ sess[s].out[3].n = 2

UserCommands == {"CreateUser", "DeleteUser", "PromoteUser"}

\* The step of session s is a run of the handler of a user command.
UserCommandStep(s) ==
    /\ sess'[s].nIn = sess[s].nIn + 1
    /\ sess'[s].resp.cmd \in UserCommands
    /\ ~sess'[s].resp.fault
    /\ users[sess[s].username].present

\* C8: CreateUser, DeleteUser and PromoteUser issued in a session whose user
\* has role User are answered Denied and leave the users table as it was;
\* issued by an Admin they are executed.
C8_AdminOnlyUserCommands ==
    [][\A s \in Sessions :
          UserCommandStep(s) =>
            LET executer == users[sess[s].username]
                cmd == sess'[s].resp
                target == cmd.username
            IN  /\ executer.role = "User" =>
                     cmd.result = "Denied" /\ tables' = tables
                /\ executer.role = "Admin" =>
                     /\ cmd.result # "Denied"
                     /\ cmd.result = "Created" =>
                           /\ ~users[target].present
                           /\ users'[target].present
                           /\ users'[target].role = cmd.role
                     /\ cmd.result = "Exists" =>
                           users[target].present /\ users' = users
                     /\ cmd.result = "Deleted" =>
                           users[target].present /\ ~users'[target].present
                     /\ cmd.result = "Promoted" =>
                           /\ users[target].role = "User"
                           /\ users'[target].role = "Admin"
                     /\ cmd.result = "NoChange" =>
                           users[target].role = "Admin" /\ users' = users
                     /\ cmd.result = "NotFound" =>
                           ~users[target].present /\ users' = users
                     /\ (cmd.cmd = "DeleteUser" /\ users[target].present) =>
                           cmd.result = "Deleted"
                     /\ (cmd.cmd = "PromoteUser" /\ users[target].present) =>
                           users'[target].role = "Admin"
      ]_vars

\* bob, a User, has asked for root to be deleted and was answered Denied;
\* root is still there.
C8_Witness ==
    \E s \in Sessions :
        /\ sess[s].username = "bob"
        /\ users["bob"].present
        /\ users["bob"].role = "User"
        /\ sess[s].resp.cmd = "DeleteUser"
        /\ sess[s].resp.username = "root"
        /\ sess[s].resp.result = "Denied"
        /\ users["root"].present

\* C13: in every state reachable after the first-run bootstrap, by any
\* sequence of CreateUser, DeleteUser, PromoteUser and DemoteUser commands, the
\* users table holds at least one user whose role is Admin.
C13_AdminExists ==
    \E u \in UserNames : users[u].present /\ users[u].role = "Admin"

\* The step of session s is a run of a command handler that returned an error
\* before it sent anything.
FailedCommandStep(s) ==
    /\ sess'[s].nIn = sess[s].nIn + 1
    /\ sess'[s].resp.result = "Err"

\* The step of session s appends the close of the connection to what a
\* session in Command state did.
CloseInCommandStep(s) ==
    /\ sess[s].state = "Command"
    /\ sess'[s].state = "Command"
    /\ sess'[s].out = Append(sess[s].out, CloseEvent)

\* C12: a command that fails in Command state (a frame that does not parse,
\* a storage error, a crypto error, security groups of bad syntax) is answered
\* with an error frame, and the session stays in Command with its connection
\* open, ready for the next frame; the connection is closed only when a send
\* has failed.
C12_ErrorsAreNotFatal ==
    [][\A s \in Sessions :
          /\ FailedCommandStep(s) =>
                /\ sess'[s].pc = "errframe"
                /\ sess'[s].state = "Command"
                /\ sess'[s].sink = sess[s].sink
                /\ sess'[s].out = sess[s].out
          /\ (sess[s].pc = "errframe" /\ sess'[s].pc # "errframe" /\ sess[s].peer) =>
                /\ sess'[s].out
                     = Append(sess[s].out, [e |-> "error", n |-> sess[s].nIn])
                /\ sess'[s].pc = "command"
                /\ sess'[s].state = "Command"
                /\ sess'[s].sink = "open"
                /\ sess'[s].nIn = sess[s].nIn
          /\ CloseInCommandStep(s) => (sess[s].pc = "errframe" /\ ~sess[s].peer)
          /\ (sess[s].state = "Command" /\ sess[s].sink = "open"
                /\ sess'[s].sink = "taken") => ~sess[s].peer
      ]_vars

\* Two commands have failed in a row, the second an InsertSecret whose secret
\* the envelope cannot encrypt; each was answered with an error frame and the
\* session is in Command, its connection open.
C12_Witness ==
    \E s \in Sessions :
        /\ sess[s].state = "Command"
        /\ sess[s].pc = "command"
        /\ sess[s].sink = "open"
        /\ sess[s].peer
        /\ sess[s].resp.cmd = "InsertSecret"
        /\ sess[s].resp.at = "ok"
        /\ sess[s].resp.result = "Err"
        /\ sess[s].out = <<[e |-> "Granted"], [e |-> "error", n |-> 1],
                           [e |-> "error", n |-> 2]>>

(***************************************************************************)
(* Properties of the envelope.                                             *)
(***************************************************************************)
\* C9: for every non-empty byte string p, those of lengths 1, 511, 512, 513,
\* 1024 and 1025 included, encrypt(p) succeeds and decrypt(encrypt(p)) = p.
C9_RoundTrip ==
    \A r \in Requests :
        (/\ req[r].pc = "done"
         /\ req[r].decision = "Authorized"
         /\ req[r].method \in {"POST", "PUT"}
         /\ req[r].body.len > 0) =>
            /\ encrypt(req[r].body).ok
            /\ decrypt(encrypt(req[r].body)).ok
            /\ decrypt(encrypt(req[r].body)).plain = req[r].body

(***************************************************************************)
(* Properties of an access key from its creation on.                       *)
(***************************************************************************)
\* The step decides the request r, which presents the access key that the
\* last command of session s, a CreateAccessKey, has returned for its vault.
DecidesOnCreatedKey(s, r) ==
    /\ sess[s].resp.cmd = "CreateAccessKey"
    /\ sess[s].resp.result = "Ok"
    /\ req[r].pc = "auth"
    /\ req'[r].pc # "auth"
    /\ ~req'[r].fault
    /\ req[r].ip # NoAddr
    /\ req[r].header.valid
    /\ req[r].vault = sess[s].resp.vault
    /\ req[r].header.access_key = sess[s].resp.access_key

\* C10: for the pair (ak, sak) that CreateAccessKey has just returned for a
\* vault V, a request on V presenting (ak, sak) from an address inside one of
\* the CIDRs given and for a permission that was granted is Authorized, and
\* the same request with any other sak is Unauthorized.
C10_CreatedKeyAuthorizes ==
    [][\A s \in Sessions, r \in Requests :
          DecidesOnCreatedKey(s, r) =>
            LET row == access_keys[<<req[r].vault, req[r].header.access_key>>]
                sak == req[r].header.secret_access_key
            IN  /\ row.present
                /\ sak # sess[s].resp.secret_access_key =>
                      req'[r].decision # "Authorized"
                /\ (/\ WellFormedSg(row.sg)
                    /\ IpInSomeCidr(row.sg, req[r].ip)
                    /\ RequiredPermission(req[r].method) \in row.permission) =>
                      /\ sak = sess[s].resp.secret_access_key =>
                            req'[r].decision = "Authorized"
                      /\ sak # sess[s].resp.secret_access_key =>
                            req'[r].decision = "Unauthorized"
      ]_vars

\* A request presenting the pair that CreateAccessKey returned last has been
\* authorized from 10.1.2.3 for a key bound to 192.168.0.0/16 and 10.0.0.0/8.
C10_Witness ==
    \E s \in Sessions, r \in Requests :
        /\ sess[s].resp.cmd = "CreateAccessKey"
        /\ sess[s].resp.result = "Ok"
        /\ sess[s].resp.secret_access_key = "sakB"
        /\ req[r].pc = "refresh"
        /\ req[r].decision = "Authorized"
        /\ req[r].header = Credentials(sess[s].resp.access_key, "sakB")
        /\ req[r].ip = Inside
        /\ Len(req[r].doc.sg) = 2
        /\ req[r].doc = access_keys[<<"v1", sess[s].resp.access_key>>]

\* The step of session s is a run of CreateAccessKey that committed a row.
CreatedKeyStep(s) ==
    /\ sess'[s].nIn = sess[s].nIn + 1
    /\ sess'[s].resp.cmd = "CreateAccessKey"
    /\ sess'[s].resp.result = "Ok"

\* The frames that the step of session s has sent.
SentInStep(s) ==
    IF Len(sess'[s].out) > Len(sess[s].out)
    THEN {sess'[s].out[i] : i \in (Len(sess[s].out) + 1)..Len(sess'[s].out)}
    ELSE {}

C16_DeletedVaultRefuses ==
    \A r \in Requests :
        (Decided(r) /\ req[r].purged) =>
            /\ ~req[r].doc.present
            /\ req[r].decision = "Unauthorized"
            /\ req[r].status \in {0, 401}
            /\ req[r].pc = "done" => req[r].status = 401

\* root has created the key of v1 and then deleted v1 in one connection; a
\* request on v1 presenting that key, decided after the deletion, has been
\* answered 401 after the delay.
C16_Witness ==
    \E s \in Sessions, r \in Requests :
        /\ DeletedLast(s, "v1")
        /\ Len(sess[s].out) = 3
        /\ sess[s].out[2].secret_access_key = "sakA"
        /\ req[r].purged
        /\ req[r].vault = "v1"
        /\ req[r].header = Credentials("k1", "sakA")
        /\ req[r].delays = 1
        /\ req[r].status = 401

(***************************************************************************)
(* Properties of the writes of the data plane.                             *)
(***************************************************************************)
\* The secrets_count of a vault, 0 while it has no row.
SecretsCount(vt, vault) == IF vt[vault].present THEN vt[vault].secrets_count ELSE 0

\* The step of request r is insert_secret on an authorized POST or PUT, the
\* storage working.
InsertSecretStep(r) ==
    /\ req[r].pc = "handle"
    /\ req'[r].pc = "done"
    /\ req[r].method \in {"POST", "PUT"}
    /\ ~req'[r].failed

\* C17: an authorized POST or PUT on (V, s) with a non-empty body returns 201
\* and raises V.secrets_count by one exactly when no secret row (V, s) existed
\* before, and returns 200 and leaves V.secrets_count as it was exactly when
\* the row existed.
C17_CreatedOrUpdated ==
    [][\A r \in Requests :
          (InsertSecretStep(r) /\ req[r].body.len > 0) =>
            LET V == req[r].vault
                existed == secrets[<<V, req[r].secret_name>>].present
            IN  /\ ~existed <=>
                      /\ req'[r].status = 201
                      /\ SecretsCount(vaults', V) = SecretsCount(vaults, V) + 1
                /\ existed <=>
                      /\ req'[r].status = 200
                      /\ SecretsCount(vaults', V) = SecretsCount(vaults, V)
      ]_vars

\* Request r is a POST or PUT that came with an empty body.
EmptyInsert(r) ==
    /\ req[r].method \in {"POST", "PUT"}
    /\ req[r].body.len = 0

\* C18: an authorized POST or PUT with an empty body is answered 422, and no
\* step that serves it changes the secrets table or the vaults table.
C18_EmptyBodyUnprocessable ==
    [][\A r \in Requests :
          (EmptyInsert(r) /\ req'[r] # req[r]) =>
             /\ secrets' = secrets
             /\ vaults' = vaults
             /\ (req[r].pc = "handle" /\ req'[r].pc = "done") => req'[r].status = 422
      ]_vars

\* An authorized POST with an empty body has been answered 422 while the
\* secret it names is stored.
C18_Witness ==
    \E r \in Requests :
       /\ EmptyInsert(r)
       /\ req[r].method = "POST"
       /\ req[r].decision = "Authorized"
       /\ req[r].pc = "done"
       /\ req[r].status = 422
       /\ secrets[<<req[r].vault, req[r].secret_name>>].present

(***************************************************************************)
(* The starts of the process on one data directory: main runs              *)
(* initialize_db, which opens or creates the KV file and, after creating   *)
(* it, creates root and logs the generated password; root then logs in     *)
(* from the loopback address, and the process exits and starts again.      *)
(***************************************************************************)
MaxStarts == 3      \* starts of the process on the data directory

FailedToInitialize == LogRecord("failed to initialize the DB module", "")

\* db::initialize and the arm of initialize_db for its error: the KV file is
\* opened when it exists and created when it does not; an error is logged
\* and the process exits.
initialize(io) ==
    /\ host.pc = "down"
    /\ host.starts < MaxStarts
    /\ host' = IF io = "fail"
               THEN Host(host.kv_file, "down", host.starts + 1, host.kv_file,
                         Append(host.log, FailedToInitialize))
               ELSE IF host.kv_file
               THEN Host(TRUE, "up", host.starts + 1, TRUE, host.log)
               ELSE Host(TRUE, "created", host.starts + 1, FALSE, host.log)
    /\ UNCHANGED <<tables, sess, req>>

\* initialize_db after InitializeState::Created: root is created with the
\* generated password, which is logged when the user was created.
initialize_db(initial_password, io) ==
    /\ host.pc = "created"
    /\ LET txn == create_user(INITIAL_USERNAME, initial_password, "Admin",
                              INITIAL_SECURITY_GROUP, io)
       IN  /\ Commit(txn)
           /\ host' = IF txn.result = "Created"
                      THEN [host EXCEPT !.pc = "up",
                                        !.log = Append(@, LogRecord("root user created",
                                                                    initial_password))]
                      ELSE IF txn.result = "Exists"
                      THEN [host EXCEPT !.pc = "up"]
                      ELSE [host EXCEPT !.pc = "down",
                                        !.log = Append(@, FailedToInitialize)]
    /\ UNCHANGED <<sess, req>>

\* The process ends: its connections and requests are gone, the KV file and
\* the log stay.
ProcessExit ==
    /\ host.pc = "up"
    /\ host' = [host EXCEPT !.pc = "down"]
    /\ sess' = [s \in Sessions |-> NoSession]
    /\ req' = [r \in Requests |-> NoRequest]
    /\ UNCHANGED tables

\* server::start has been reached.
Serving == host.pc = "up"

FreshDirectory ==
    /\ host = Host(FALSE, "down", 0, FALSE, <<>>)
    /\ users = [u \in UserNames |-> NoRow]
    /\ vaults = [v \in Vaults |-> NoRow]
    /\ access_keys = [k \in Vaults \X AccessKeyIds |-> NoRow]
    /\ secrets = [k \in Vaults \X SecretNames |-> NoRow]
    /\ sess = [s \in Sessions |-> NoSession]
    /\ req = [r \in Requests |-> NoRequest]

NextBoot ==
    \/ \E io \in Io : initialize(io)
    \/ \E initial_password \in Passwords, io \in Io : initialize_db(initial_password, io)
    \/ ProcessExit
    \/ \E s \in Sessions :
         /\ Serving
         /\ \/ Connect(s, Loopback)
            \/ PeerDisconnect(s)
            \/ \E p \in Passwords : LoginFrame(s, INITIAL_USERNAME, p, "ok", "ok")
            \/ LoginDelay(s)
            \/ LoginDenied(s)
            \/ LoginClose(s)
            \/ CmdDeleteUser(s, INITIAL_USERNAME, "ok")

SpecBoot == FreshDirectory /\ [][NextBoot]_vars

\* The records of the log that carry a password.
PasswordRecords(log) == {i \in DOMAIN log : log[i].password # ""}

\* The step belongs to a start: the process is not yet serving.
StartStep == host.pc \in {"down", "created"} /\ host' # host

\* C19: root is created, and its password logged, only on a start that found
\* no KV file; a start that finds the KV file creates no user and logs no
\* password; and once the process serves, whatever the starts before, the
\* log holds exactly one record with the password.
C19_PasswordLoggedOnce ==
    /\ [][StartStep =>
            /\ (users' # users \/ PasswordRecords(host'.log) # PasswordRecords(host.log))
                  => (~host.found /\ host.pc = "created")
            /\ host'.found =>
                  (users' = users /\ PasswordRecords(host'.log) = PasswordRecords(host.log))
         ]_vars
    /\ [](Serving => Cardinality(PasswordRecords(host.log)) = 1)

(***************************************************************************)
(* The boundaries of a CIDR block: root and the key k1 of v1 are bound to  *)
(* one IPv4 entry network/n; logins and requests come from the lowest and  *)
(* the highest address of the block, from the addresses next to them, from *)
(* the network literal itself and from an IPv6 address.                    *)
(***************************************************************************)
CidrNetworks == {Ip4(10, 0, 0, 0), Ip4(192, 168, 129, 77), Ip4(0, 0, 0, 0),
                 Ip4(255, 255, 255, 255)}
CidrPrefixes == {0, 1, 8, 9, 17, 24, 31, 32}
CidrEntries == {Sg(NetLit(net), n) : net \in CidrNetworks, n \in CidrPrefixes}

\* The lowest and the highest address of the block of an IPv4 entry: the top
\* prefix bits of the network, the other bits all 0 or all 1.
BlockSize(entry, i) == Pow2(8 - BitsInOctet(entry.prefix, i))
LowOctet(entry, i) ==
    (entry.network.ip.oct[i] \div BlockSize(entry, i)) * BlockSize(entry, i)
HighOctet(entry, i) == LowOctet(entry, i) + BlockSize(entry, i) - 1
BlockLow(entry) ==
    Ip4(LowOctet(entry, 1), LowOctet(entry, 2), LowOctet(entry, 3), LowOctet(entry, 4))
BlockHigh(entry) ==
    Ip4(HighOctet(entry, 1), HighOctet(entry, 2), HighOctet(entry, 3), HighOctet(entry, 4))

\* The IPv4 addresses next to an address, where there is one.
Below(ip) ==
    LET o == ip.oct
    IN  IF o[4] > 0 THEN {Ip4(o[1], o[2], o[3], o[4] - 1)}
        ELSE IF o[3] > 0 THEN {Ip4(o[1], o[2], o[3] - 1, 255)}
        ELSE IF o[2] > 0 THEN {Ip4(o[1], o[2] - 1, 255, 255)}
        ELSE IF o[1] > 0 THEN {Ip4(o[1] - 1, 255, 255, 255)}
        ELSE {}
Above(ip) ==
    LET o == ip.oct
    IN  IF o[4] < 255 THEN {Ip4(o[1], o[2], o[3], o[4] + 1)}
        ELSE IF o[3] < 255 THEN {Ip4(o[1], o[2], o[3] + 1, 0)}
        ELSE IF o[2] < 255 THEN {Ip4(o[1], o[2] + 1, 0, 0)}
        ELSE IF o[1] < 255 THEN {Ip4(o[1] + 1, 0, 0, 0)}
        ELSE {}

\* The addresses logins and requests come from, for a stored entry.
BoundaryIps(entry) ==
    {BlockLow(entry), BlockHigh(entry), entry.network.ip, Ip6Loopback}
      \cup Below(BlockLow(entry)) \cup Above(BlockHigh(entry))

\* The state after root's security groups were set to one entry and the key k1
\* of v1 was created with the same entry and every permission.
CidrBound ==
    /\ host = Booted
    /\ \E entry \in CidrEntries :
          /\ users = [u \in UserNames |->
                        IF u = "root"
                        THEN UserDocument(hash_password(RootPassword), "Admin", <<entry>>)
                        ELSE NoRow]
          /\ access_keys = [k \in Vaults \X AccessKeyIds |->
                              IF k = <<"v1", "k1">>
                              THEN AccessKeyDocument(sign_secret("sakA"), VaultPermissions,
                                                     <<entry>>)
                              ELSE NoRow]
    /\ vaults = [v \in Vaults |-> IF v = "v1" THEN VaultDocument(0, 1) ELSE NoRow]
    /\ secrets = [k \in Vaults \X SecretNames |-> NoRow]
    /\ sess = [s \in Sessions |-> NoSession]
    /\ req = [r \in Requests |-> NoRequest]

NextCidr ==
    \/ \E s \in Sessions :
         \/ \E a \in BoundaryIps(users["root"].sg[1]) : Connect(s, a)
         \/ PeerDisconnect(s)
         \/ LoginFrame(s, "root", RootPassword, "ok", "ok")
         \/ LoginDelay(s)
         \/ LoginDenied(s)
         \/ LoginClose(s)
         \/ StreamError(s)
    \/ \E r \in Requests :
         \/ \E a \in BoundaryIps(access_keys[<<"v1", "k1">>].sg[1]) :
              DpReceive(r, "LIST", "v1", "s1", a, Credentials("k1", "sakA"), NoPlain)
         \/ DpAuthorize(r, "ok")
         \/ DpRefresh(r, "ok")
         \/ DpDelay(r)
         \/ DpRefuse(r)
         \/ DpList(r, "ok")

SpecCidr == CidrBound /\ [][NextCidr]_vars

\* Bit k (1 the highest) of an address.
Bit(ip, k) == (ip.oct[(k - 1) \div 8 + 1] \div Pow2(7 - ((k - 1) % 8))) % 2

\* The top n bits of two addresses are equal.
SameTopBits(a, b, n) == \A k \in 1..n : Bit(a, k) = Bit(b, k)

\* sg is one IPv4 entry network/n with 0 <= n <= 32.
OneIpv4Entry(sg) ==
    /\ Len(sg) = 1
    /\ sg[1].network.parses
    /\ sg[1].network.ip.fam = 4
    /\ sg[1].prefix \in 0..32

\* What the claim says of an IPv4 address ip checked against entry, accepted
\* telling whether the check let it pass.
CidrVerdict(entry, ip, accepted) ==
    /\ accepted <=> SameTopBits(ip, entry.network.ip, entry.prefix)
    /\ ip \in {BlockLow(entry), BlockHigh(entry)} => accepted
    /\ ip \in Below(BlockLow(entry)) \cup Above(BlockHigh(entry)) => ~accepted

\* C20: for a stored IPv4 entry network/n with 0 <= n <= 32, an IPv4 request
\* address is accepted, by access_check and by user::login alike, exactly when
\* its top n bits equal the top n bits of the network: the lowest and the
\* highest address of the block are accepted, the address one below the lowest
\* and the address one above the highest are rejected.  (The credentials are
\* right and the permissions suffice, so that the security group decides.)
C20_CidrBoundaries ==
    /\ \A r \in Requests :
          (/\ Decided(r)
           /\ req[r].doc.present
           /\ OneIpv4Entry(req[r].doc.sg)
           /\ req[r].ip.fam = 4) =>
             CidrVerdict(req[r].doc.sg[1], req[r].ip, req[r].decision = "Authorized")
    /\ \A s \in Sessions :
          (/\ sess[s].resp.cmd = "Login"
           /\ ~sess[s].resp.fault
           /\ sess[s].resp.user.present
           /\ OneIpv4Entry(sess[s].resp.user.sg)
           /\ sess[s].ip.fam = 4) =>
             CidrVerdict(sess[s].resp.user.sg[1], sess[s].ip,
                         sess[s].resp.result = "Successful")

\* Under an entry /9 whose network literal is not the lowest address of its
\* block, root has logged in from the lowest address and a request from the
\* address above the highest has been refused.
C20_Witness ==
    \E s \in Sessions, r \in Requests :
       LET entry == users["root"].sg[1]
       IN  /\ entry.prefix = 9
           /\ entry.network.ip # BlockLow(entry)
           /\ sess[s].resp.cmd = "Login"
           /\ sess[s].resp.result = "Successful"
           /\ sess[s].ip = BlockLow(entry)
           /\ Decided(r)
           /\ req[r].ip \in Above(BlockHigh(entry))
           /\ req[r].decision = "Unauthorized"
           /\ req[r].status = 401

(***************************************************************************)
(* The tasks of one session: root logs in from the loopback address, sends *)
(* commands and goes away, in order or not, while the ping task runs.      *)
(***************************************************************************)
SessionTasks(s) ==
    \/ PingWake(s)
    \/ PingBegin(s)
    \/ PingEnd(s)
    \/ RecvClosing(s)
    \/ SendEnd(s)
    \/ ErrBegin(s)
    \/ ErrEnd(s)
    \/ CloseEnd(s)
    \/ StreamError(s)

NextTasks ==
    \E s \in Sessions :
       \/ sess[s].pc = "none" /\ Connect(s, Loopback)
       \/ LoginFrame(s, "root", RootPassword, "ok", "ok")
       \/ LoginClose(s)
       \/ PeerDisconnect(s)
       \/ PeerClose(s)
       \/ \E result \in {"Ok", "Err"} : RecvBegin(s, result)
       \/ SessionTasks(s)

SpecTasks == Init /\ [][NextTasks]_vars

\* C21: in every interleaving of the ping task and the receive loop of a
\* session, at most one of ping, pong, send_response and close is writing to
\* the sink of the session at any time.
C21_OneWriter == \A s \in Sessions : Cardinality(sess[s].writing) <= 1

\* A response is being written while the ping task, its sleep over, waits
\* for the mutex.
C21_Witness ==
    \E s \in Sessions :
       /\ sess[s].writing = {"send_response"}
       /\ sess[s].lock = "recv"
       /\ sess[s].ping = "wait"

(***************************************************************************)
(* The same tasks under fair scheduling: a task that can take its next     *)
(* step takes it.  When the peer goes away and which frames it sent before *)
(* is not the scheduler's to decide.                                       *)
(***************************************************************************)
FairTasks ==
    /\ SpecTasks
    /\ \A s \in Sessions :
          /\ WF_vars(PingWake(s))
          /\ WF_vars(PingBegin(s))
          /\ WF_vars(PingEnd(s))
          /\ WF_vars(RecvClosing(s))
          /\ WF_vars(SendEnd(s))
          /\ WF_vars(ErrBegin(s))
          /\ WF_vars(ErrEnd(s))
          /\ WF_vars(CloseEnd(s))
          /\ WF_vars(StreamError(s))

\* Both tasks of session s have come to their end (a panic ends a task).
TasksTerminated(s) ==
    /\ sess[s].ping \in {"ended", "panicked"}
    /\ sess[s].pc \in {"ended", "panicked"}

\* C22: once the peer of a session in Command state has disconnected or a
\* ping has failed, the ping task and the receive loop of the session both
\* terminate eventually, also when a failed send of a response closed the
\* connection.
C22_TasksTerminate ==
    \A s \in Sessions :
       (/\ sess[s].state = "Command"
        /\ ~sess[s].peer \/ sess[s].closing) ~> TasksTerminated(s)

(***************************************************************************)
(* Properties of the end of a login attempt.                               *)
(***************************************************************************)
\* C23: every login attempt that does not reach Command is delayed by
\* users.delay_unsuccessful_attempts_millis before the connection is closed,
\* whichever branch ended it: unknown user, address outside the security
\* groups, wrong password, a first frame that does not parse or is no text
\* frame, or an error while the user's security groups are evaluated.
C23_EveryFailedLoginDelayed ==
    \A s \in Sessions :
       (sess[s].state = "Login" /\ sess[s].pc = "closed") =>
          \E i, j \in DOMAIN sess[s].out :
             /\ i < j
             /\ sess[s].out[i] = DelayEvent
             /\ sess[s].out[j] = CloseEvent

(***************************************************************************)
(* Properties of the RSA layer of the envelope.                            *)
(***************************************************************************)
\* The blocks of BLOCK_SIZE bytes that len bytes fill, the last one maybe in
\* part.
BlocksOf(len) == (len + BLOCK_SIZE - 1) \div BLOCK_SIZE

\* C24: rsa_encrypt processes every byte of its input: an input longer than
\* 512 bytes whose length is no multiple of 512 is encrypted in ceil(len / 512)
\* blocks, the last of them holding the bytes after the last full block.
C24_EveryByteEncrypted ==
    \A r \in Requests :
       LET c1 == aes_encrypt(req[r].body)
           ct == rsa_encrypt(c1)
       IN  (/\ req[r].pc = "handle"
            /\ req[r].method \in {"POST", "PUT"}
            /\ c1.len > BLOCK_SIZE
            /\ c1.len % BLOCK_SIZE # 0) =>
              /\ ct.ok
              /\ Len(ct.blocks) = BlocksOf(c1.len)
              /\ ct.blocks[Len(ct.blocks)].rsa.to = c1.len

(***************************************************************************)
(* Properties of the life of a vault row.                                  *)
(***************************************************************************)
\* The step stores a row of table keyed (vault, *) that was not there.
InsertsInto(table_before, table_after, vault) ==
    \E k \in DOMAIN table_before :
       k[1] = vault /\ ~table_before[k].present /\ table_after[k].present

\* C25: when the first secret or access key is inserted into a vault that
\* has no vault row, the same transaction creates the vault row with the
\* counter of the inserted kind equal to 1 and the other counter equal to 0.
C25_FirstChildCreatesVault ==
    [][\A v \in Vaults :
          ~vaults[v].present =>
             /\ InsertsInto(secrets, secrets', v) => vaults'[v] = VaultDocument(1, 0)
             /\ InsertsInto(access_keys, access_keys', v) => vaults'[v] = VaultDocument(0, 1)
      ]_vars

\* InsertSecret has just brought about the row of v2 with its first secret,
\* while the row of v1 came with its first access key.
C25_Witness ==
    \E s \in Sessions :
       /\ sess[s].resp.cmd = "InsertSecret"
       /\ sess[s].resp.result = "Inserted"
       /\ sess[s].resp.vault = "v2"
       /\ vaults["v2"] = VaultDocument(1, 0)
       /\ secrets[<<"v2", "s1">>].present
       /\ vaults["v1"] = VaultDocument(0, 1)
       /\ access_keys[<<"v1", "k1">>].present

\* The step removes a row of table keyed (vault, *).
DeletesFrom(table_before, table_after, vault) ==
    \E k \in DOMAIN table_before :
       k[1] = vault /\ table_before[k].present /\ ~table_after[k].present

\* C26: a vault row is removed only by DeleteVault; the deletion of the last
\* secret and of the last access key of a vault leaves the vault row in place,
\* with both counters equal to 0.
C26_OnlyDeleteVaultRemoves ==
    [][\A v \in Vaults :
          vaults[v].present =>
             /\ ~vaults'[v].present =>
                   \E s \in Sessions :
                      /\ sess'[s] # sess[s]
                      /\ sess'[s].resp.cmd = "DeleteVault"
                      /\ sess'[s].resp.result = "Deleted"
                      /\ sess'[s].resp.vault = v
             /\ (/\ vaults'[v].present
                 /\ DeletesFrom(secrets, secrets', v) \/ DeletesFrom(access_keys, access_keys', v)
                 /\ RowsOf(secrets', v) = {}
                 /\ RowsOf(access_keys', v) = {}) => vaults'[v] = VaultDocument(0, 0)
      ]_vars

\* DeleteAccessKey has removed the last child of v1, some time after a
\* secret of v1 was deleted on the data plane, and the row of v1 is there.
C26_Witness ==
    \E s \in Sessions, r \in Requests :
       /\ sess[s].resp.cmd = "DeleteAccessKey"
       /\ sess[s].resp.result = "Deleted"
       /\ sess[s].resp.vault = "v1"
       /\ req[r].method = "DELETE"
       /\ req[r].vault = "v1"
       /\ req[r].status = 200
       /\ RowsOf(secrets, "v1") = {}
       /\ RowsOf(access_keys, "v1") = {}
       /\ vaults["v1"] = VaultDocument(0, 0)

(***************************************************************************)
(* Two admin sessions of root, on two workers, create access keys in v1    *)
(* side by side.                                                           *)
(***************************************************************************)
Admins == {"c1", "c2"}

TwoAdmins ==
    /\ host = Booted
    /\ users = [u \in UserNames |->
                  IF u = "root"
                  THEN UserDocument(hash_password(RootPassword), "Admin",
                                    <<Sg(NetLit(Loopback), 32)>>)
                  ELSE NoRow]
    /\ vaults = [v \in Vaults |-> NoRow]
    /\ access_keys = [k \in Vaults \X AccessKeyIds |-> NoRow]
    /\ secrets = [k \in Vaults \X SecretNames |-> NoRow]
    /\ sess = [s \in Admins |-> NoSession]
    /\ req = [r \in Requests |-> NoRequest]

NextCreate ==
    \E s \in Admins :
       \/ sess[s].pc = "none" /\ Connect(s, Loopback)
       \/ LoginFrame(s, "root", RootPassword, "ok", "ok")
       \/ \E access_key \in AccessKeyIds : CreateKeyDraw(s, "v1", access_key)
       \/ \E sg \in {TenNet, TwoNets}, secret_access_key \in SecretAccessKeys, io \in Io :
            CreateKeyInsert(s, sg, {"ListSecrets"}, secret_access_key, io)
       \/ ErrorFrame(s)

SpecCreate == TwoAdmins /\ [][NextCreate]_vars

\* C27: CreateAccessKey never overwrites an existing (vault, access_key_id)
\* row, also when two sessions create keys in one vault side by side and draw
\* the same id: a draw that collides with a stored id is not kept, and an
\* insert that finds the id present changes nothing.
C27_NeverOverwrites ==
    [][/\ \A k \in DOMAIN access_keys :
            access_keys[k].present => access_keys'[k] = access_keys[k]
       /\ \A s \in Admins :
            /\ (sess[s].pc # "keydrawn" /\ sess'[s].pc = "keydrawn") =>
                  ~access_keys[<<sess'[s].resp.vault, sess'[s].resp.access_key>>].present
            /\ (/\ sess[s].pc = "keydrawn"
                /\ sess'[s].pc # "keydrawn"
                /\ access_keys[<<sess[s].resp.vault, sess[s].resp.access_key>>].present) =>
                  /\ sess'[s].resp.result = "Err"
                  /\ tables' = tables
      ]_vars

\* Both sessions kept the draw k1 while it was free; c1 stored its key, and
\* the insert of c2, with another secret-access-key and the storage working,
\* was refused and left the row of c1.
C27_Witness ==
    /\ sess["c1"].resp.cmd = "CreateAccessKey"
    /\ sess["c1"].resp.result = "Ok"
    /\ sess["c1"].resp.access_key = "k1"
    /\ sess["c1"].resp.secret_access_key = "sakA"
    /\ sess["c2"].resp.cmd = "CreateAccessKey"
    /\ sess["c2"].resp.result = "Err"
    /\ sess["c2"].resp.at = "ok"
    /\ sess["c2"].resp.access_key = "k1"
    /\ access_keys[<<"v1", "k1">>].secret_access_key = sign_secret("sakA")
    /\ vaults["v1"] = VaultDocument(0, 1)

(***************************************************************************)
(* Properties of the last_used stamp.                                      *)
(***************************************************************************)
\* C28: the last_used stamp of an access key is written only for a request
\* that was decided Authorized, in a write transaction of its own after the
\* decision, and the request goes on to the same response whether that write
\* succeeds or fails.
C28_StampIsBestEffort ==
    [][/\ \A k \in DOMAIN access_keys :
            access_keys'[k] # access_keys[k] =>
               /\ \E r \in Requests :
                     /\ req[r].pc = "refresh"
                     /\ req[r].decision = "Authorized"
                     /\ k = <<req[r].vault, req[r].header.access_key>>
               /\ access_keys' = [access_keys EXCEPT ![k].last_used = "Some"]
               /\ <<users, vaults, secrets>>' = <<users, vaults, secrets>>
       /\ \A r \in Requests :
            (req[r].pc = "refresh" /\ req'[r] # req[r]) =>
               req'[r] = [req[r] EXCEPT !.pc = "handle"]
      ]_vars

\* An authorized LIST has been answered 200 although the stamp of its key
\* could not be written.
C28_Witness ==
    \E r \in Requests :
       /\ req[r].method = "LIST"
       /\ req[r].decision = "Authorized"
       /\ req[r].pc = "done"
       /\ req[r].status = 200
       /\ access_keys[<<req[r].vault, req[r].header.access_key>>].last_used = "None"

(***************************************************************************)
(* Who may change the security groups of a user.  A User logs in next to   *)
(* the Admin: root creates bob, and either of them asks for new security   *)
(* groups of root or of bob.                                               *)
(***************************************************************************)
NextSg ==
    \/ NextSession
    \/ \E s \in Sessions, u \in UserNames, io \in Io,
          sg \in {TenNet, LoopbackOnly, <<WireNoSlash>>} :
         CmdChangeSgForUser(s, u, sg, io)

SpecSg == Init /\ [][NextSg]_vars

\* The step of session s is a run of the ChangeSgForUser handler, the storage
\* working.
ChangeSgStep(s) ==
    /\ sess'[s].nIn = sess[s].nIn + 1
    /\ sess'[s].resp.cmd = "ChangeSgForUser"
    /\ ~sess'[s].resp.fault

\* The executer of the step has role Admin, or the request names the user of
\* the session.
SgAllowed(s) ==
    \/ ExecuterRole(s) = "Admin"
    \/ sess'[s].resp.username = sess[s].username

\* The step has replaced the security groups of the user the request names,
\* and has answered Changed.
SgApplied(s) ==
    LET parsed == ParseSg(sess'[s].resp.sg)
    IN  /\ sess'[s].resp.result = "Changed"
        /\ parsed.ok
        /\ users[sess'[s].resp.username].present
        /\ users' = [users EXCEPT ![sess'[s].resp.username].sg = parsed.sg]

\* The step has answered Denied and has left the users table as it was.
SgDenied(s) ==
    /\ sess'[s].resp.result = "Denied"
    /\ users' = users

NextIsolation ==
    \/ \E s \in Sessions :
         \/ Connect(s, Loopback)
         \/ LoginFrame(s, "root", RootPassword, "ok", "ok")
         \/ CmdCreateAccessKey(s, "v1", TenNet, VaultPermissions, "k1", "sakA", "ok")
         \/ \E k \in AccessKeyIds :
              CmdCreateAccessKey(s, "v2", TenNet, VaultPermissions, k, "sakB", "ok")
    \/ \E r \in Requests :
         \/ \E m \in Methods, v \in Vaults,
               h \in {Credentials("k1", "sakA"), Credentials("k1", "sakB"),
                      Credentials("k2", "sakB")} :
              \E b \in Bodies(m, {SmallSecret}) :
                 DpReceive(r, m, v, "s1", Inside, h, b)
         \/ DpServe(r)

SpecIsolation == Init /\ [][NextIsolation]_vars

\* The access-key row a request is decided on: the one stored under the vault
\* of its path and the access key of its header.
RowOf(rq) == Find(access_keys, <<rq.vault, rq.header.access_key>>)

\* The step of request r is an Authorized decision of initialize_request.
AuthorizedStep(r) ==
    /\ req[r].pc = "auth"
    /\ req'[r].decision = "Authorized"

\* The step of request r is made by an authorized request: the refresh of
\* last_used or the handler.
HandlerStep(r) ==
    /\ req[r].pc \in {"refresh", "handle"}
    /\ req'[r] # req[r]

\* The keys of a table whose rows the step has changed.
Touched(table_before, table_after) ==
    {k \in DOMAIN table_before : table_after[k] # table_before[k]}

DpWriteStep(r) ==
    /\ req[r].pc = "handle"
    /\ req'[r].pc = "done"
    /\ req[r].method \in {"POST", "PUT", "DELETE"}
    /\ <<vaults', secrets'>> # <<vaults, secrets>>

\* C31: a data-plane write (POST, PUT or DELETE) commits only if the access
\* key that authorized it still exists when the write transaction commits: a
\* request on vault V authorized before a DeleteVault(V) or DeleteAccessKey
\* does not insert a secret into V or re-create the vault row V afterwards.
C31_WriteNeedsLiveKey ==
    [][\A r \in Requests :
          DpWriteStep(r) =>
             /\ RowOf(req[r]).present
             /\ vaults[req[r].vault].present
      ]_vars

(***************************************************************************)
(* The session of a user that was deleted.                                 *)
(***************************************************************************)
\* The step of session s is a run of a command handler.
CommandStep(s) ==
    /\ sess[s].state = "Command"
    /\ sess'[s].nIn = sess[s].nIn + 1

\* C32: after DeleteUser(u) has committed, a session that logged in as u
\* before the deletion commits no further change to the vaults, secrets or
\* access-keys tables.
C32_DeletedUserWritesNothing ==
    [][\A s \in Sessions :
          (CommandStep(s) /\ ~users[sess[s].username].present) =>
             <<vaults', access_keys', secrets'>> = <<vaults, access_keys, secrets>>
      ]_vars

(***************************************************************************)
(* The session after close().                                              *)
(***************************************************************************)
\* A task of session s has called ping or send_response after close() took
\* the sink: the expect() on ws_session has panicked.
UsedAfterClose(s) ==
    \/ sess[s].ping = "panicked"
    \/ sess[s].pc = "panicked"

\* C33: once close() has taken the WebSocket sink of a session, no later
\* ping, pong or send_response is invoked on that session: the receive loop
\* and the ping task stop using the session after a failed send has closed
\* it.
C33_NoUseAfterClose ==
    \A s \in Sessions : ~UsedAfterClose(s)

(***************************************************************************)
(* Child rows and their vault row.                                         *)
(***************************************************************************)
\* Every secret row and every access-key row has the row of its vault.
ChildrenHaveVault ==
    \A v \in Vaults :
       (RowsOf(secrets, v) # {} \/ RowsOf(access_keys, v) # {}) => vaults[v].present

\* C34: in every committed state each secret row (V, s) and each access-key
\* row (V, k) has a vault row V; hence a child delete always finds the vault
\* row (the branch of the counter update that creates a missing row is not
\* taken by it), and a vault row comes into being only in a step that inserts
\* a child, never in a delete.
C34_ChildrenHaveVaultRow ==
    /\ []ChildrenHaveVault
    /\ [][\A v \in Vaults :
             /\ (DeletesFrom(secrets, secrets', v) \/ DeletesFrom(access_keys, access_keys', v))
                   => vaults[v].present
             /\ (~vaults[v].present /\ vaults'[v].present) =>
                   /\ InsertsInto(secrets, secrets', v) \/ InsertsInto(access_keys, access_keys', v)
                   /\ ~DeletesFrom(secrets, secrets', v)
                   /\ ~DeletesFrom(access_keys, access_keys', v)
        ]_vars

\* A POST on v1 authorized before DeleteVault(v1) has written its secret after
\* it: the vault has no access key any more, the secret row is there, and so
\* is the vault row, made again by the insert.
C34_Witness ==
    \E r \in Requests, s \in Sessions :
       /\ DeletedLast(s, "v1")
       /\ req[r].method = "POST"
       /\ req[r].status = 201
       /\ RowsOf(access_keys, "v1") = {}
       /\ secrets[<<"v1", "s1">>].present
       /\ vaults["v1"] = VaultDocument(1, 0)

(***************************************************************************)
(* Security-group entries with a negative prefix.                          *)
(***************************************************************************)
\* Every entry of the security groups has a negative prefix, and there is one.
AllPrefixesNegative(sg) ==
    /\ Len(sg) > 0
    /\ \A i \in 1..Len(sg) : sg[i].prefix < 0

\* C35: a stored security-group entry whose prefix is negative never makes a
\* request IP count as contained: a request decided on an access key whose
\* entries all have a negative prefix is never Authorized, whatever its
\* address.
C35_NegativePrefixNeverMatches ==
    \A r \in Requests :
        (Decided(r) /\ req[r].doc.present /\ AllPrefixesNegative(req[r].doc.sg)) =>
            req[r].decision # "Authorized"

(***************************************************************************)
(* The loop of access_keys::create that draws the id.  AccessKeyIds are    *)
(* the ids of the configured length; every draw happens again and again.   *)
(***************************************************************************)
FairCreate ==
    /\ SpecCreate
    /\ \A s \in Admins :
          /\ \A k \in AccessKeyIds : WF_vars(CreateKeyDraw(s, "v1", k))
          /\ WF_vars(\E sg \in {TenNet, TwoNets}, sak \in SecretAccessKeys, io \in Io :
                        CreateKeyInsert(s, sg, {"ListSecrets"}, sak, io))
          /\ WF_vars(ErrorFrame(s))

\* The create of session s is in its loop: the last draw was found in the
\* vault and dropped.
DrawingAgain(s) ==
    /\ sess[s].resp.cmd = "draw"
    /\ sess[s].resp.result = "again"

\* The create of session s has returned, with a key pair or with an error.
CreateReturned(s) == sess[s].resp.cmd = "CreateAccessKey"

\* C36: CreateAccessKey terminates, with a key pair or with an error, for
\* every reachable content of the access-keys table, including the one where
\* every id of the configured length is already stored in the vault.
C36_CreateTerminates ==
    \A s \in Admins : DrawingAgain(s) ~> CreateReturned(s)

(***************************************************************************)
(* Updates of one access-key document side by side: root changes the       *)
(* permission list and the security groups of k1 of v1 while LIST requests  *)
(* presenting k1 are authorized and stamp last_used.                       *)
(***************************************************************************)
NextUpdates ==
    \/ \E s \in Sessions :
         \/ Connect(s, Loopback)
         \/ LoginFrame(s, "root", RootPassword, "ok", "ok")
         \/ \E p \in {{"ListSecrets"}, {"ListSecrets", "DecryptSecrets"}, {"DecryptSecrets"}},
               io \in Io :
              CmdChangePermissionForAccessKey(s, "v1", "k1", p, io)
         \/ \E sg \in {TenNet, TwoNets, <<WireNoSlash>>}, io \in Io :
              CmdChangeSgForAccessKey(s, "v1", "k1", sg, io)
         \/ ErrorFrame(s)
    \/ \E r \in Requests :
         \/ DpReceive(r, "LIST", "v1", "s1", Inside, Credentials("k1", "sakA"), NoPlain)
         \/ DpAuthorize(r, "ok")
         \/ \E io \in Io : DpRefresh(r, io)
         \/ DpDelay(r)
         \/ DpRefuse(r)
         \/ DpList(r, "ok")

SpecUpdates == Keyed({FullKey}) /\ [][NextUpdates]_vars

\* The step of session s is the command cmd on k1 of v1, answered Updated.
UpdatedStep(s, cmd) ==
    /\ sess'[s].nIn = sess[s].nIn + 1
    /\ sess'[s].resp.cmd = cmd
    /\ sess'[s].resp.result = "Updated"

\* C37: updates of one access-key document by ChangePermissionForAccessKey,
\* ChangeSgForAccessKey and the last_used refresh, in any interleaving, never
\* lose an update: each committed update changes its own field of the
\* document as the transaction finds it and keeps the other fields, so the
\* document holds the permission list of the last committed permission
\* change, the security groups of the last committed SG change and the stamp.
C37_NoLostUpdate ==
    [][/\ \A s \in Sessions :
            /\ UpdatedStep(s, "ChangePermissionForAccessKey") =>
                  access_keys' = [access_keys EXCEPT
                                     ![<<"v1", "k1">>].permission = sess'[s].resp.permission]
            /\ UpdatedStep(s, "ChangeSgForAccessKey") =>
                  access_keys' = [access_keys EXCEPT
                                     ![<<"v1", "k1">>].sg = ParseSg(sess'[s].resp.sg).sg]
       /\ \A r \in Requests :
            (req[r].pc = "refresh" /\ req'[r].pc # "refresh") =>
                \/ access_keys' = access_keys
                \/ access_keys' = [access_keys EXCEPT ![<<"v1", "k1">>].last_used = "Some"]
       /\ access_keys' # access_keys =>
             \/ \E s \in Sessions :
                   \/ UpdatedStep(s, "ChangePermissionForAccessKey")
                   \/ UpdatedStep(s, "ChangeSgForAccessKey")
             \/ \E r \in Requests : req[r].pc = "refresh"
      ]_vars

\* A LIST was authorized with the key as it was created; root then changed
\* the permission list and the security groups; the refresh of the request
\* then stamped the row, which holds all three.
C37_Witness ==
    \E s \in Sessions, r \in Requests :
       /\ sess[s].nIn = 2
       /\ sess[s].resp.cmd = "ChangeSgForAccessKey"
       /\ sess[s].resp.result = "Updated"
       /\ req[r].doc.present
       /\ req[r].doc.permission = VaultPermissions
       /\ req[r].doc.last_used = "None"
       /\ req[r].pc = "handle"
       /\ access_keys[<<"v1", "k1">>] =
             [AccessKeyDocument(sign_secret("sakA"), {"ListSecrets"}, ParseSg(TwoNets).sg)
                EXCEPT !.last_used = "Some"]

(***************************************************************************)
(* A start after a first start that stopped half way.                      *)
(***************************************************************************)
\* The step completes a start: server::start is reached.
StartCompletes == ~Serving /\ host'.pc = "up"

\* C38: if a first start creates the KV file but stops before the insert of
\* root commits, a later start on the same data directory still creates the
\* root Admin user: a start that completes on a directory where root was
\* never created (the log holds no password record) leaves root, an Admin,
\* in the users table.
C38_LaterStartCreatesRoot ==
    [][(StartCompletes /\ PasswordRecords(host.log) = {}) =>
          /\ users'[INITIAL_USERNAME].present
          /\ users'[INITIAL_USERNAME].role = "Admin"
      ]_vars

(***************************************************************************)
(* The refreshes of last_login and last_used next to deletions.  bob, a    *)
(* User, and the key k1 of v1 exist; on two connections root and bob log   *)
(* in, root deletes bob and the vault, and LIST requests present k1.       *)
(***************************************************************************)
KeyAndBob ==
    /\ host = Booted
    /\ users = [u \in UserNames |->
                  IF u = "root"
                  THEN UserDocument(hash_password(RootPassword), "Admin",
                                    <<Sg(NetLit(Loopback), 32)>>)
                  ELSE UserDocument(hash_password("pw2"), "User",
                                    <<Sg(NetLit(Loopback), 32)>>)]
    /\ vaults = [v \in Vaults |-> IF v = "v1" THEN VaultDocument(0, 1) ELSE NoRow]
    /\ access_keys = [k \in Vaults \X AccessKeyIds |->
                        IF k = <<"v1", "k1">> THEN FullKey ELSE NoRow]
    /\ secrets = [k \in Vaults \X SecretNames |-> NoRow]
    /\ sess = [s \in Admins |-> NoSession]
    /\ req = [r \in Requests |-> NoRequest]

NextStamp ==
    \/ \E s \in Admins :
         \/ sess[s].pc = "none" /\ Connect(s, Loopback)
         \/ \E u \in UserNames, p \in Passwords : LoginVerify(s, u, p)
         \/ \E stamp \in Io : LoginStamp(s, stamp)
         \/ LoginDelay(s)
         \/ LoginDenied(s)
         \/ LoginClose(s)
         \/ CmdDeleteUser(s, "bob", "ok")
         \/ CmdDeleteVault(s, "v1", "ok")
    \/ \E r \in Requests :
         \/ DpReceive(r, "LIST", "v1", "s1", Inside, Credentials("k1", "sakA"), NoPlain)
         \/ DpAuthorize(r, "ok")
         \/ \E io \in Io : DpRefresh(r, io)
         \/ DpDelay(r)
         \/ DpRefuse(r)
         \/ DpList(r, "ok")

SpecStamp == KeyAndBob /\ [][NextStamp]_vars

\* The step of session s is the refresh of last_login of its login.
StampStep(s) == sess[s].pc = "stamping" /\ sess'[s].pc # "stamping"

\* The step of request r is the refresh of last_used of its authorization.
RefreshStep(r) == req[r].pc = "refresh" /\ req'[r].pc # "refresh"

\* The step stores no row that was not there, in any table.
CreatesNoRow ==
    /\ \A u \in DOMAIN users : ~users[u].present => ~users'[u].present
    /\ \A k \in DOMAIN access_keys : ~access_keys[k].present => ~access_keys'[k].present
    /\ \A v \in DOMAIN vaults : ~vaults[v].present => ~vaults'[v].present

\* C39: the timestamp refreshes never create a row: when the access key (or
\* the user) was deleted between the read that authorized the request (or
\* the login) and the refresh write, refresh_access_time (or
\* refresh_last_active) leaves the access-keys, users and vaults tables, the
\* vault counters included, unchanged.
C39_RefreshCreatesNoRow ==
    [][/\ \A s \in Admins :
            StampStep(s) =>
               /\ CreatesNoRow
               /\ vaults' = vaults
               /\ ~users[sess[s].resp.username].present => tables' = tables
       /\ \A r \in Requests :
            RefreshStep(r) =>
               /\ CreatesNoRow
               /\ vaults' = vaults
               /\ ~RowOf(req[r]).present => tables' = tables
      ]_vars

\* bob's password was verified on the row that was there; root deleted bob
\* before the refresh of last_login, which found no row; bob's session is in
\* Command state and the users table has no bob.
C39_Witness ==
    \E s \in Admins :
       /\ sess[s].state = "Command"
       /\ sess[s].username = "bob"
       /\ sess[s].resp.cmd = "Login"
       /\ sess[s].resp.user.present
       /\ ~sess[s].resp.found
       /\ ~users["bob"].present

====
